---- MODULE Spec2Model ----
(***************************************************************************)
(* A model of the keyword matcher: the similarity engine (cosineSimilarity *)
(* and findTopSimilar of lib/vectorSearch), the response validator         *)
(* (lib/validators) and the match route (app/api/match POST).              *)
(***************************************************************************)
EXTENDS Integers, Sequences, FiniteSets, TLC

VARIABLES
    vecA, vecB, cosOut,                       \* cosineSimilarity: arguments, outcome
    queryEmbedding, keywordIndex, topN, topOut, \* findTopSimilar: arguments, outcome
    candidateKeywords, allowedKeywords,        \* validateKeywords: arguments,
    validated, validatedAgain,                 \*   its result, and the result filtered again
    llmResponse, extracted                     \* extractKeywordsFromLLMResponse: argument, result

VARIABLES
    config,              \* lib/config
    storage,             \* the data directory
    keywordIndexCache,   \* the module variable of the route
    pc,                  \* where POST stands: "idle", "embedding", "generating", "done"
    body,                \* the request body
    requestIndex,        \* POST's keywordIndex
    selectedProvider,
    shortlist,
    llmContent,          \* the text the generation provider returned
    providerAnswer,      \* what the generation provider answered
    calls,               \* embedText, generation and recordUsage calls of the request
    httpResponse,        \* what POST answered
    served               \* requests received so far

VARIABLES
    lexDescription, lexIndex, lexOut,   \* the lexical ranking: arguments, result
    usageState, usageSnapshot,          \* lib/usageTracker: its state, the last snapshot taken
    usageInput,                         \*   the argument of the last recordUsage call
    estimateCache,                      \* the estimate route: its keywordIndexCache,
    estimatePc, estimateBody,           \*   where its POST stands, the request body,
    estimateEmbedding, estimateResponse \*   the embedding outcome, the response

cosVars == <<vecA, vecB, cosOut>>
topVars == <<queryEmbedding, keywordIndex, topN, topOut>>
valVars == <<candidateKeywords, allowedKeywords, validated, validatedAgain>>
extVars == <<llmResponse, extracted>>
lexVars == <<lexDescription, lexIndex, lexOut>>
usageVars == <<usageState, usageSnapshot, usageInput>>
estimateVars == <<estimateCache, estimatePc, estimateBody, estimateEmbedding, estimateResponse>>
auxVars == <<lexVars, usageVars, estimateVars>>
postVars == <<config, storage, keywordIndexCache, pc, body, requestIndex,
              selectedProvider, shortlist, llmContent, providerAnswer, calls,
              httpResponse, served>>
vars == <<cosVars, topVars, valVars, extVars, postVars, auxVars>>

\* The value of a variable that holds no result yet.
None == [none |-> TRUE]

\* A function call's outcome: it returned a value, or it threw an Error.
Return(v) == [threw |-> FALSE, value |-> v]
Throw(msg) == [threw |-> TRUE, message |-> msg]

(***************************************************************************)
(* JavaScript numbers.  A number is an IEEE-754 binary floating point      *)
(* value, modelled as <<m, e>> standing for m * 2^e, with m = 0 or         *)
(* 2^(MantBits-1) <= |m| < 2^MantBits.  Every operation rounds its exact   *)
(* result to the nearest representable value, ties to even, as IEEE-754    *)
(* prescribes.  binary64 has a 53 bit significand; the model keeps         *)
(* MantBits bits so that every intermediate fits TLC's 32-bit integers.    *)
(***************************************************************************)
MantBits == 13

Abs(n) == IF n < 0 THEN -n ELSE n

RECURSIVE BitLen(_)
BitLen(n) == IF n = 0 THEN 0 ELSE 1 + BitLen(n \div 2)

FZero == <<0, 0>>
\* The result of 0 / 0: no number.
NaN == <<0, 1>>

\* q * 2^e (q > 0, and a little more when sticky), rounded to MantBits bits.
RoundNE(q, sticky, e) ==
    LET b == BitLen(q) IN
    IF b <= MantBits
    THEN <<q * 2^(MantBits - b), e - (MantBits - b)>>
    ELSE LET s == b - MantBits
             top == q \div 2^s
             rem == q % 2^s
             half == 2^(s - 1)
             up == rem > half \/ (rem = half /\ (sticky \/ top % 2 = 1))
             m == IF up THEN top + 1 ELSE top
         IN  IF m = 2^MantBits THEN <<2^(MantBits - 1), e + s + 1>> ELSE <<m, e + s>>

FNeg(x) == <<-x[1], x[2]>>

\* An integer that is exactly representable (|n| < 2^MantBits) as a number.
FromInt(n) ==
    IF n = 0 THEN FZero
    ELSE IF n > 0 THEN RoundNE(n, FALSE, 0) ELSE FNeg(RoundNE(-n, FALSE, 0))

FOne == FromInt(1)

RECURSIVE ISqrtIn(_, _, _)
\* The largest r in lo..hi with r * r <= x.
ISqrtIn(x, lo, hi) ==
    IF lo = hi THEN lo
    ELSE LET mid == (lo + hi + 1) \div 2 IN
         IF mid * mid <= x THEN ISqrtIn(x, mid, hi) ELSE ISqrtIn(x, lo, mid - 1)

RECURSIVE ScaleUp(_, _)
\* The least k with n * 4^k >= 4^MantBits.
ScaleUp(n, k) == IF n * 4^k >= 4^MantBits THEN k ELSE ScaleUp(n, k + 1)

\* Math.sqrt of a non-negative integer.
FSqrtInt(n) ==
    IF n = 0 THEN FZero
    ELSE LET k == ScaleUp(n, 0)
             x == n * 4^k
             r == ISqrtIn(x, 0, 2^(MantBits + 1))
         IN  RoundNE(r, r * r # x, -k)

\* x * y
FMul(x, y) ==
    IF x[1] = 0 \/ y[1] = 0 THEN FZero
    ELSE LET p == RoundNE(Abs(x[1]) * Abs(y[1]), FALSE, x[2] + y[2]) IN
         IF (x[1] > 0) = (y[1] > 0) THEN p ELSE FNeg(p)

\* x / y, y not zero
FDiv(x, y) ==
    IF x[1] = 0 THEN FZero
    ELSE LET n == Abs(x[1]) * 2^(MantBits + 1)
             d == Abs(y[1])
             q == RoundNE(n \div d, n % d # 0, x[2] - (MantBits + 1) - y[2])
         IN  IF (x[1] > 0) = (y[1] > 0) THEN q ELSE FNeg(q)

\* The sign of x - y: -1, 0 or 1.
FCmp(x, y) ==
    LET sx == IF x[1] > 0 THEN 1 ELSE IF x[1] < 0 THEN -1 ELSE 0
        sy == IF y[1] > 0 THEN 1 ELSE IF y[1] < 0 THEN -1 ELSE 0
        mag == IF x[2] # y[2] THEN (IF x[2] > y[2] THEN 1 ELSE -1)
               ELSE IF Abs(x[1]) > Abs(y[1]) THEN 1
               ELSE IF Abs(x[1]) < Abs(y[1]) THEN -1 ELSE 0
    IN  IF sx # sy THEN (IF sx > sy THEN 1 ELSE -1)
        ELSE IF sx = 0 THEN 0
        ELSE sx * mag

(***************************************************************************)
(* lib/vectorSearch: cosineSimilarity                                      *)
(***************************************************************************)
RECURSIVE SumProducts(_, _, _)
\* The loop of cosineSimilarity: the sum over i < n of a[i] * b[i].  The
\* components are small integers, so each partial sum is exact.
SumProducts(a, b, n) ==
    IF n = 0 THEN 0 ELSE SumProducts(a, b, n - 1) + a[n] * b[n]

cosineSimilarityNoLengthCheck(a, b) ==
    LET n == IF Len(a) < Len(b) THEN Len(a) ELSE Len(b)
        denominator == FMul(FSqrtInt(SumProducts(a, a, n)), FSqrtInt(SumProducts(b, b, n)))
    IN  IF denominator = FZero THEN Return(FZero)
        ELSE Return(FDiv(FromInt(SumProducts(a, b, n)), denominator))

cosineSimilarityNoZeroCheck(a, b) ==
    IF Len(a) # Len(b) THEN Throw("Vectors must have the same length")
    ELSE LET denominator == FMul(FSqrtInt(SumProducts(a, a, Len(a))),
                                 FSqrtInt(SumProducts(b, b, Len(a))))
         IN  IF denominator = FZero THEN Return(NaN)
             ELSE Return(FDiv(FromInt(SumProducts(a, b, Len(a))), denominator))

cosineSimilarityNormAOnly(a, b) ==
    IF Len(a) # Len(b) THEN Throw("Vectors must have the same length")
    ELSE LET normA == SumProducts(a, a, Len(a))
             denominator == FMul(FSqrtInt(normA), FSqrtInt(normA))
         IN  IF denominator = FZero THEN Return(FZero)
             ELSE Return(FDiv(FromInt(SumProducts(a, b, Len(a))), denominator))

cosineSimilarity(a, b) ==
    IF Len(a) # Len(b) THEN Throw("Vectors must have the same length")
    ELSE LET dotProduct == SumProducts(a, b, Len(a))
             normA == SumProducts(a, a, Len(a))
             normB == SumProducts(b, b, Len(a))
             denominator == FMul(FSqrtInt(normA), FSqrtInt(normB))
         IN  IF denominator = FZero THEN Return(FZero)
             ELSE Return(FDiv(FromInt(dotProduct), denominator))

(***************************************************************************)
(* cosineSimilarity applied to every pair of small vectors.                *)
(***************************************************************************)
MaxDim == 2
CosComponents == {-1, 0, 1, 2}

VectorsOver(S, n) == UNION {[1..k -> S] : k \in 0..n}

\* An absent file, and an index without entries.
Missing == [exists |-> FALSE]
NoIndex == [keywords |-> <<>>]

\* let llmContent = ''
NoContent == [text |-> <<>>, parsed |-> Throw("SyntaxError")]

\* The variables of the other components, at rest.
CosIdle == vecA = <<>> /\ vecB = <<>> /\ cosOut = None
TopIdle ==
    /\ queryEmbedding = <<>> /\ keywordIndex = [keywords |-> <<>>]
    /\ topN = 1 /\ topOut = None

ValIdle ==
    /\ candidateKeywords = <<>> /\ allowedKeywords = {}
    /\ validated = None /\ validatedAgain = None

ExtIdle == llmResponse = NoContent /\ extracted = None

LexIdle == lexDescription = <<>> /\ lexIndex = NoIndex /\ lexOut = None
UsageIdle == usageState = None /\ usageSnapshot = None /\ usageInput = None
EstimateIdle ==
    /\ estimateCache = None /\ estimatePc = "idle" /\ estimateBody = None
    /\ estimateEmbedding = None /\ estimateResponse = None
AuxIdle == LexIdle /\ UsageIdle /\ EstimateIdle

PostIdle ==
    /\ config = [openaiApiKey |-> FALSE, geminiApiKey |-> FALSE, openrouterApiKey |-> FALSE,
                 shortlistSize |-> 0]
    /\ storage = [indexFile |-> Missing, keywordsFile |-> Missing]
    /\ keywordIndexCache = None
    /\ pc = "idle" /\ body = None /\ requestIndex = NoIndex
    /\ selectedProvider = "null" /\ shortlist = <<>> /\ calls = <<>>
    /\ llmContent = NoContent /\ providerAnswer = None
    /\ httpResponse = None /\ served = 0

InitCos ==
    /\ vecA \in VectorsOver(CosComponents, MaxDim)
    /\ vecB \in VectorsOver(CosComponents, MaxDim)
    /\ cosOut = None
    /\ TopIdle /\ ValIdle /\ ExtIdle /\ PostIdle /\ AuxIdle

CallCosineSimilarity ==
    /\ cosOut = None
    /\ cosOut' = cosineSimilarity(vecA, vecB)
    /\ UNCHANGED <<vecA, vecB, topVars, valVars, extVars, postVars, auxVars>>

NextCos == CallCosineSimilarity

SpecCos == InitCos /\ [][NextCos]_vars

IsZeroVector(v) == \A i \in 1..Len(v) : v[i] = 0

\* C7: cosineSimilarity throws the length error exactly when the two lengths
\* differ, and returns a number (also for two empty vectors) when they agree.
C7_LengthMismatchThrows ==
    cosOut # None =>
        IF Len(vecA) # Len(vecB)
        THEN cosOut = Throw("Vectors must have the same length")
        ELSE ~cosOut.threw /\ cosOut.value # NaN

C7_Witness ==
    /\ cosOut # None
    /\ Len(vecA) = 1 /\ Len(vecB) = 2
    /\ cosOut.threw

C7_WitnessEmpty == cosOut # None /\ vecA = <<>> /\ vecB = <<>> /\ ~cosOut.threw

\* C8 as stated: a zero-norm argument gives exactly 0, and cosineSimilarity(v, v)
\* is exactly 1 for every non-zero v.
C8_SelfSimilarityExactlyOne ==
    (cosOut # None /\ Len(vecA) = Len(vecB)) =>
        /\ (IsZeroVector(vecA) \/ IsZeroVector(vecB)) => cosOut = Return(FZero)
        /\ (vecA = vecB /\ ~IsZeroVector(vecA)) => cosOut = Return(FOne)

\* x is within 8 units of roundoff (2^-MantBits each) of 1.
CloseToOne(x) ==
    \/ x[2] = -(MantBits - 1) /\ x[1] >= 2^(MantBits - 1) /\ x[1] - 2^(MantBits - 1) <= 4
    \/ x[2] = -MantBits /\ x[1] > 0 /\ 2^MantBits - x[1] <= 8

IsPerfectSquare(n) == \E r \in 0..n : r * r = n

\* C8 amended: a zero-norm argument gives exactly 0; cosineSimilarity(v, v) for
\* a non-zero v is within rounding error of 1, and exactly 1 when the squared
\* norm of v is a perfect square (its square root is then exact).
C8_SelfSimilarityCloseToOne ==
    (cosOut # None /\ Len(vecA) = Len(vecB)) =>
        /\ (IsZeroVector(vecA) \/ IsZeroVector(vecB)) => cosOut = Return(FZero)
        /\ (vecA = vecB /\ ~IsZeroVector(vecA)) =>
              /\ ~cosOut.threw
              /\ CloseToOne(cosOut.value)
              /\ IsPerfectSquare(SumProducts(vecA, vecA, Len(vecA))) => cosOut.value = FOne

C8_Witness ==
    /\ cosOut # None
    /\ vecA = <<1, 1>> /\ vecB = vecA
    /\ ~cosOut.threw /\ cosOut.value # FOne /\ CloseToOne(cosOut.value)

C8_WitnessZero == cosOut = Return(FZero) /\ vecA = <<0, 0>> /\ vecB = vecA

\* C9: cosineSimilarity(a, b) = cosineSimilarity(b, a) for equal-length a, b.
C9_Symmetric ==
    (cosOut # None /\ Len(vecA) = Len(vecB)) =>
        cosOut = cosineSimilarity(vecB, vecA)

C9_Witness ==
    /\ cosOut # None
    /\ vecA = <<1, 2>> /\ vecB = <<2, 0>>
    /\ ~cosOut.threw /\ cosOut.value # FZero /\ cosOut.value # FOne

(***************************************************************************)
(* lib/vectorSearch: findTopSimilar                                        *)
(*                                                                         *)
(* A KeywordIndex is a record with a keywords sequence and, optionally, an *)
(* embeddingDimensions field; a KeywordEntry has a keyword and an          *)
(* embedding (its path takes no part in the search).                       *)
(***************************************************************************)
Min(a, b) == IF a < b THEN a ELSE b

HasDeclaredDimensions(index) == "embeddingDimensions" \in DOMAIN index

RECURSIVE FindWithEmbedding(_, _)
\* keywords.find((entry) => entry.embedding.length > 0), searched from
\* position i: the position found, 0 when there is none.
FindWithEmbedding(keywords, i) ==
    IF i > Len(keywords) THEN 0
    ELSE IF Len(keywords[i].embedding) > 0 THEN i
    ELSE FindWithEmbedding(keywords, i + 1)

RECURSIVE FindOtherLength(_, _, _)
\* keywords.find((entry) => entry.embedding.length !== length), from position i.
FindOtherLength(keywords, length, i) ==
    IF i > Len(keywords) THEN 0
    ELSE IF Len(keywords[i].embedding) # length THEN i
    ELSE FindOtherLength(keywords, length, i + 1)

RECURSIVE FindThrown(_, _)
\* The first call of the map callback that threw, 0 when none did.
FindThrown(outcomes, i) ==
    IF i > Len(outcomes) THEN 0
    ELSE IF outcomes[i].threw THEN i
    ELSE FindThrown(outcomes, i + 1)

\* The position of the entry whose embedding is firstEmbedding, 0 for undefined.
FirstEmbeddingAt(index) == FindWithEmbedding(index.keywords, 1)

expectedDimensionsFirstOnly(index) ==
    IF FirstEmbeddingAt(index) # 0
    THEN Len(index.keywords[FirstEmbeddingAt(index)].embedding)
    ELSE 0

\* keywordIndex.embeddingDimensions || (firstEmbedding ? firstEmbedding.length : 0)
expectedDimensions(index) ==
    IF HasDeclaredDimensions(index) /\ index.embeddingDimensions # 0
    THEN index.embeddingDimensions
    ELSE IF FirstEmbeddingAt(index) # 0
         THEN Len(index.keywords[FirstEmbeddingAt(index)].embedding)
         ELSE 0

ThrowNoEmbeddings == Throw("Keyword index does not contain embeddings.")

ThrowDimensionMismatch(queryLength, indexDimensions) ==
    [threw |-> TRUE, message |-> "Embedding dimension mismatch",
     query |-> queryLength, index |-> indexDimensions]

ThrowInconsistent ==
    Throw("Keyword index has inconsistent embedding dimensions. Rebuild the keyword index.")

compareSimilarityAscending(a, b) == FCmp(a.similarity, b.similarity)

\* The comparator (a, b) => b.similarity - a.similarity, as its sign.
compareSimilarity(a, b) == FCmp(b.similarity, a.similarity)

RECURSIVE InsertSorted(_, _)
\* x put into the sorted sequence after every element that does not compare
\* greater than it (so equal elements keep their order).
InsertSorted(sorted, x) ==
    IF sorted = <<>> THEN <<x>>
    ELSE IF compareSimilarity(sorted[1], x) > 0 THEN <<x>> \o sorted
    ELSE <<sorted[1]>> \o InsertSorted(Tail(sorted), x)

RECURSIVE StableSort(_, _)
\* Array.prototype.sort, which is stable: the first n elements of seq, sorted.
StableSort(seq, n) ==
    IF n = 0 THEN <<>>
    ELSE InsertSorted(StableSort(seq, n - 1), seq[n])

\* Array.prototype.slice(0, n) for n >= 0.
\* A slice that keeps everything.
SliceNone(seq, n) == seq

SliceTo(seq, n) == SubSeq(seq, 1, Min(n, Len(seq)))

\* The map, sort and slice that end findTopSimilar.  A throw of the map
\* callback (cosineSimilarity) ends the call with that error.
RankBySimilarity(query, index, n) ==
    LET outcomes == [i \in 1..Len(index.keywords) |->
                        cosineSimilarity(query, index.keywords[i].embedding)]
        thrown == FindThrown(outcomes, 1)
    IN  IF thrown # 0 THEN outcomes[thrown]
        ELSE LET similarities == [i \in 1..Len(index.keywords) |->
                     [entry |-> index.keywords[i], similarity |-> outcomes[i].value]]
                 sorted == StableSort(similarities, Len(similarities))
                 top == SliceTo(sorted, n)
             IN  Return([i \in 1..Len(top) |-> top[i].entry])

\* findTopSimilar with the query checked before the index.
findTopSimilarQueryCheckFirst(query, index, n) ==
    LET first == FirstEmbeddingAt(index)
        expected == expectedDimensions(index)
    IN  IF Len(query) # expected THEN ThrowDimensionMismatch(Len(query), expected)
        ELSE IF first = 0 \/ expected = 0 THEN ThrowNoEmbeddings
        ELSE IF FindOtherLength(index.keywords, Len(index.keywords[first].embedding), 1) # 0
             THEN ThrowInconsistent
        ELSE RankBySimilarity(query, index, n)

findTopSimilar(query, index, n) ==
    LET first == FirstEmbeddingAt(index)
        expected == expectedDimensions(index)
    IN  IF first = 0 \/ expected = 0 THEN ThrowNoEmbeddings
        ELSE IF Len(query) # expected THEN ThrowDimensionMismatch(Len(query), expected)
        ELSE LET firstEmbedding == index.keywords[first].embedding
                 inconsistentEntry == FindOtherLength(index.keywords, Len(firstEmbedding), 1)
             IN  IF inconsistentEntry # 0 THEN ThrowInconsistent
                 ELSE RankBySimilarity(query, index, n)

(***************************************************************************)
(* findTopSimilar applied to small indexes, queries and topN.              *)
(***************************************************************************)
MaxEntries == 3
MaxTopN == 4
EmbeddingComponents == {0, 1}
QueryComponents == {-1, 0, 1}
Dimensions == {1, 2}

KeywordName(i) == <<"k", i>>

\* The indexes of n entries: entry i has keyword KeywordName(i).
IndexesOfSize(n) ==
    LET lists == [1..n -> VectorsOver(EmbeddingComponents, 2)]
        plain == {[keywords |-> [i \in 1..n |->
                      [keyword |-> KeywordName(i), embedding |-> l[i]]]] : l \in lists}
    IN  plain \cup
        {[keywords |-> x.keywords, embeddingDimensions |-> d] : x \in plain, d \in Dimensions}

InitTop ==
    /\ keywordIndex \in UNION {IndexesOfSize(n) : n \in 0..MaxEntries}
    /\ queryEmbedding \in VectorsOver(QueryComponents, 2)
    /\ topN \in 1..MaxTopN
    /\ topOut = None
    /\ CosIdle /\ ValIdle /\ ExtIdle /\ PostIdle /\ AuxIdle

CallFindTopSimilar ==
    /\ topOut = None
    /\ topOut' = findTopSimilar(queryEmbedding, keywordIndex, topN)
    /\ UNCHANGED <<queryEmbedding, keywordIndex, topN, cosVars, valVars, extVars, postVars,
                   auxVars>>

NextTop == CallFindTopSimilar

SpecTop == InitTop /\ [][NextTop]_vars

Entries == keywordIndex.keywords

\* The expected dimension as the specification defines it: the declared
\* embeddingDimensions when present, else the first non-empty embedding's length.
ClaimedDimension ==
    IF HasDeclaredDimensions(keywordIndex) THEN keywordIndex.embeddingDimensions
    ELSE Len(Entries[FirstEmbeddingAt(keywordIndex)].embedding)

SomeEmbedding == \E i \in 1..Len(Entries) : Len(Entries[i].embedding) > 0

Similarity(entry) == cosineSimilarity(queryEmbedding, entry.embedding).value

PositionOf(entry) == CHOOSE i \in 1..Len(Entries) : Entries[i] = entry

\* entry a ranks before entry b: a is more similar to the query, or as
\* similar and earlier in the index.
RanksBefore(a, b) ==
    \/ FCmp(Similarity(a), Similarity(b)) > 0
    \/ FCmp(Similarity(a), Similarity(b)) = 0 /\ PositionOf(a) < PositionOf(b)

C2_Case ==
    /\ topOut # None
    /\ SomeEmbedding
    /\ \A i \in 1..Len(Entries) : Len(Entries[i].embedding) = ClaimedDimension
    /\ Len(queryEmbedding) = ClaimedDimension

\* C2: on an index whose embeddings all have the expected dimension, with a
\* query of that dimension and topN >= 1, findTopSimilar returns
\* min(topN, number of entries) distinct entries of the index, the most similar
\* ones, by non-increasing similarity, equally similar ones in index order.
C2_TopSimilarRanked ==
    C2_Case =>
        /\ ~topOut.threw
        /\ LET out == topOut.value IN
           /\ Len(out) = Min(topN, Len(Entries))
           /\ \A i \in 1..Len(out) : \E j \in 1..Len(Entries) : Entries[j] = out[i]
           /\ \A i, j \in 1..Len(out) : i < j => RanksBefore(out[i], out[j])
           /\ \A j \in 1..Len(Entries) :
                  (\A i \in 1..Len(out) : out[i] # Entries[j]) =>
                      \A i \in 1..Len(out) : RanksBefore(out[i], Entries[j])

C2_Witness ==
    /\ C2_Case
    /\ Len(Entries) = 3 /\ topN = 2
    /\ ~topOut.threw
    /\ Len(topOut.value) = 2
    /\ topOut.value[1] = Entries[2] /\ topOut.value[2] = Entries[3]
    /\ FCmp(Similarity(Entries[2]), Similarity(Entries[3])) = 0
    /\ FCmp(Similarity(Entries[1]), Similarity(Entries[2])) < 0
    /\ FCmp(Similarity(Entries[1]), FZero) < 0

C4_EmptyIndexReturnsEmpty ==
    (topOut # None /\ Entries = <<>>) => topOut = Return(<<>>)

C6_InconsistentIndexThrows ==
    ( /\ topOut # None
      /\ SomeEmbedding
      /\ Len(queryEmbedding) = ClaimedDimension
      /\ \E i \in 1..Len(Entries) : Len(Entries[i].embedding) # ClaimedDimension )
    => topOut = ThrowInconsistent

(***************************************************************************)
(* Strings.  A string is the sequence of its characters.                   *)
(***************************************************************************)
UpperCaseLetters == <<"A", "B", "C", "D", "E", "F", "G", "H", "I", "J", "K", "L", "M", "N", "O", "P", "Q", "R", "S", "T", "U", "V", "W", "X", "Y", "Z">>
LowerCaseLetters == <<"a", "b", "c", "d", "e", "f", "g", "h", "i", "j", "k", "l", "m", "n", "o", "p", "q", "r", "s", "t", "u", "v", "w", "x", "y", "z">>
DigitCharacters == <<"0", "1", "2", "3", "4", "5", "6", "7", "8", "9">>

Range(f) == {f[i] : i \in DOMAIN f}

PositionIn(seq, x) == CHOOSE i \in 1..Len(seq) : seq[i] = x

\* String.prototype.toLowerCase
toLowerCase(str) ==
    [i \in 1..Len(str) |->
        IF str[i] \in Range(UpperCaseLetters)
        THEN LowerCaseLetters[PositionIn(UpperCaseLetters, str[i])]
        ELSE str[i]]

\* String.prototype.includes
includes(str, search) ==
    \E i \in 0..(Len(str) - Len(search)) :
        \A j \in 1..Len(search) : str[i + j] = search[j]

\* String.prototype.startsWith, for a one-character search string
startsWith(str, ch) == Len(str) > 0 /\ str[1] = ch

IsWhiteSpace(ch) == ch \in {" ", "\n", "\t"}

RECURSIVE trimStart(_)
trimStart(str) ==
    IF str # <<>> /\ IsWhiteSpace(str[1]) THEN trimStart(Tail(str)) ELSE str

RECURSIVE trimEnd(_)
trimEnd(str) ==
    IF str # <<>> /\ IsWhiteSpace(str[Len(str)])
    THEN trimEnd(SubSeq(str, 1, Len(str) - 1))
    ELSE str

\* String.prototype.trim
trim(str) == trimEnd(trimStart(str))

RECURSIVE SplitRuns(_, _, _, _)
\* The maximal runs of characters of Keep in str, in order: what
\* str.split(<one or more characters outside Keep>).filter(Boolean) leaves.
\* i is the next position, run the run being read.
SplitRuns(str, Keep, i, run) ==
    IF i > Len(str) THEN (IF run = <<>> THEN <<>> ELSE <<run>>)
    ELSE IF str[i] \in Keep THEN SplitRuns(str, Keep, i + 1, Append(run, str[i]))
    ELSE (IF run = <<>> THEN <<>> ELSE <<run>>) \o SplitRuns(str, Keep, i + 1, <<>>)

RECURSIVE SplitAt(_, _, _, _)
\* str.split(<one character of Separators>): every segment, empty ones too.
SplitAt(str, Separators, i, segment) ==
    IF i > Len(str) THEN <<segment>>
    ELSE IF str[i] \in Separators
         THEN <<segment>> \o SplitAt(str, Separators, i + 1, <<>>)
         ELSE SplitAt(str, Separators, i + 1, Append(segment, str[i]))

\* The primary collation weight of a character: white space, then
\* punctuation, then digits, then letters without regard to case.
CollationWeight(ch) ==
    IF IsWhiteSpace(ch) THEN 1
    ELSE IF ch \in Range(DigitCharacters) THEN 10 + PositionIn(DigitCharacters, ch)
    ELSE IF ch \in Range(LowerCaseLetters) THEN 20 + PositionIn(LowerCaseLetters, ch)
    ELSE IF ch \in Range(UpperCaseLetters) THEN 20 + PositionIn(UpperCaseLetters, ch)
    ELSE 2

RECURSIVE ComparePrimary(_, _, _)
ComparePrimary(a, b, i) ==
    IF i > Len(a) /\ i > Len(b) THEN 0
    ELSE IF i > Len(a) THEN -1
    ELSE IF i > Len(b) THEN 1
    ELSE IF CollationWeight(a[i]) < CollationWeight(b[i]) THEN -1
    ELSE IF CollationWeight(a[i]) > CollationWeight(b[i]) THEN 1
    ELSE ComparePrimary(a, b, i + 1)

RECURSIVE CompareCase(_, _, _)
\* For strings of equal primary weights: lower case sorts first.
CompareCase(a, b, i) ==
    IF i > Len(a) THEN 0
    ELSE IF a[i] = b[i] THEN CompareCase(a, b, i + 1)
    ELSE IF a[i] \in Range(LowerCaseLetters) THEN -1
    ELSE IF b[i] \in Range(LowerCaseLetters) THEN 1
    ELSE CompareCase(a, b, i + 1)

\* String.prototype.localeCompare, its sign, in the root collation.
localeCompare(a, b) ==
    IF ComparePrimary(a, b, 1) # 0 THEN ComparePrimary(a, b, 1) ELSE CompareCase(a, b, 1)

(***************************************************************************)
(* JavaScript values as they come out of JSON.parse.  A primitive is a     *)
(* record of its kind and of the text String() renders it as; an array     *)
(* holds primitives; an object is the sequence of its <<key, value>>       *)
(* fields, a value being a primitive or an array.                          *)
(***************************************************************************)
Str(text) == [kind |-> "string", text |-> text]
Num(text) == [kind |-> "number", text |-> text]
JsonNull == [kind |-> "null", text |-> <<"n", "u", "l", "l">>]
JsonArray(items) == [kind |-> "array", items |-> items]
JsonObject(fields) == [kind |-> "object", fields |-> fields]

\* Set.prototype.has on a set of strings: only a string can be a member.
SetHas(set, value) == value.kind = "string" /\ value.text \in set

(***************************************************************************)
(* lib/validators: validateKeywords                                        *)
(***************************************************************************)
RECURSIVE FilterAllowed(_, _, _)
\* candidateKeywords.filter((keyword) => allowedKeywords.has(keyword)), over
\* the first n candidates.
FilterAllowed(candidates, allowed, n) ==
    IF n = 0 THEN <<>>
    ELSE IF SetHas(allowed, candidates[n])
         THEN Append(FilterAllowed(candidates, allowed, n - 1), candidates[n])
         ELSE FilterAllowed(candidates, allowed, n - 1)

RECURSIVE FilterAllowedOnce(_, _, _)
\* The filter that also drops a keyword it has kept before.
FilterAllowedOnce(candidates, allowed, n) ==
    IF n = 0 THEN <<>>
    ELSE LET before == FilterAllowedOnce(candidates, allowed, n - 1) IN
         IF SetHas(allowed, candidates[n])
            /\ \A i \in 1..Len(before) : before[i] # candidates[n]
         THEN Append(before, candidates[n])
         ELSE before

validateKeywordsDeduplicating(candidates, allowed) ==
    FilterAllowedOnce(candidates, allowed, Len(candidates))

\* A validator that lets every candidate through.
validateKeywordsUnfiltered(candidates, allowed) == candidates

validateKeywords(candidates, allowed) ==
    FilterAllowed(candidates, allowed, Len(candidates))

(***************************************************************************)
(* lib/validators: extractKeywordsFromLLMResponse                          *)
(*                                                                         *)
(* A response text is a record of its characters and of what JSON.parse    *)
(* makes of them: the value returned, or the SyntaxError thrown.  The text *)
(* of a JSON response is the value's JSON.stringify rendering.             *)
(***************************************************************************)
RECURSIVE JoinWith(_, _)
\* Array.prototype.join
JoinWith(strings, separator) ==
    IF strings = <<>> THEN <<>>
    ELSE IF Len(strings) = 1 THEN strings[1]
    ELSE strings[1] \o separator \o JoinWith(Tail(strings), separator)

Quoted(text) == <<"\"">> \o text \o <<"\"">>

PrimitiveJson(value) == IF value.kind = "string" THEN Quoted(value.text) ELSE value.text

ValueJson(value) ==
    IF value.kind = "array"
    THEN <<"[">> \o JoinWith([i \in 1..Len(value.items) |-> PrimitiveJson(value.items[i])],
                             <<",">>) \o <<"]">>
    ELSE PrimitiveJson(value)

\* JSON.stringify
stringify(value) ==
    IF value.kind = "object"
    THEN <<"{">> \o JoinWith([i \in 1..Len(value.fields) |->
                      Quoted(value.fields[i][1]) \o <<":">> \o ValueJson(value.fields[i][2])],
                  <<",">>) \o <<"}">>
    ELSE ValueJson(value)

JsonResponse(value) == [text |-> stringify(value), parsed |-> Return(value)]
TextResponse(text) == [text |-> text, parsed |-> Throw("SyntaxError")]

\* JSON.parse
JSONparse(response) == response.parsed

Keywords == <<"k", "e", "y", "w", "o", "r", "d", "s">>

RECURSIVE FindField(_, _, _)
\* The position of the field named key, 0 when the object has none.
FindField(fields, key, i) ==
    IF i > Len(fields) THEN 0
    ELSE IF fields[i][1] = key THEN i
    ELSE FindField(fields, key, i + 1)

RECURSIVE FindArrayField(_, _)
\* Object.values(parsed).find((v) => Array.isArray(v))
FindArrayField(fields, i) ==
    IF i > Len(fields) THEN 0
    ELSE IF fields[i][2].kind = "array" THEN i
    ELSE FindArrayField(fields, i + 1)

\* parsed.keywords && Array.isArray(parsed.keywords): the position of such a
\* field, 0 when parsed has none.  (parsed is not null.)
KeywordsArrayField(parsed) ==
    IF parsed.kind # "object" THEN 0
    ELSE LET at == FindField(parsed.fields, Keywords, 1) IN
         IF at # 0 /\ parsed.fields[at][2].kind = "array" THEN at ELSE 0

RECURSIVE NonEmptyOnly(_)
\* .filter(Boolean) on strings
NonEmptyOnly(strings) ==
    IF strings = <<>> THEN <<>>
    ELSE IF strings[1] = <<>> THEN NonEmptyOnly(Tail(strings))
    ELSE <<strings[1]>> \o NonEmptyOnly(Tail(strings))

\* The projection without the trim.
StringifyUntrimmed(items) ==
    LET kept == NonEmptyOnly([i \in 1..Len(items) |-> items[i].text])
    IN  [i \in 1..Len(kept) |-> Str(kept[i])]

\* items.map((item) => String(item).trim()).filter(Boolean)
StringifyTrimmed(items) ==
    LET kept == NonEmptyOnly([i \in 1..Len(items) |-> trim(items[i].text)])
    IN  [i \in 1..Len(kept) |-> Str(kept[i])]

RECURSIVE WithoutFragments(_)
\* .filter((line) => line.length > 0 && !line.startsWith('[') && !line.startsWith('{'))
WithoutFragments(lines) ==
    IF lines = <<>> THEN <<>>
    ELSE IF Len(lines[1]) > 0 /\ ~startsWith(lines[1], "[") /\ ~startsWith(lines[1], "{")
         THEN <<lines[1]>> \o WithoutFragments(Tail(lines))
         ELSE WithoutFragments(Tail(lines))

\* The reading that keeps the segments beginning with a bracket or a brace.
SplitLinesKeepingFragments(text) ==
    LET lines == SplitAt(text, {",", "\n"}, 1, <<>>)
        kept == NonEmptyOnly([i \in 1..Len(lines) |-> trim(lines[i])])
    IN  [i \in 1..Len(kept) |-> Str(kept[i])]

\* The comma or newline separated reading of the raw text.
SplitLines(text) ==
    LET lines == SplitAt(text, {",", "\n"}, 1, <<>>)
        kept == WithoutFragments([i \in 1..Len(lines) |-> trim(lines[i])])
    IN  [i \in 1..Len(kept) |-> Str(kept[i])]

extractKeywordsFromLLMResponse(response) ==
    LET outcome == JSONparse(response) IN
    IF outcome.threw THEN SplitLines(response.text)
    ELSE LET parsed == outcome.value IN
         IF parsed.kind = "array" THEN StringifyTrimmed(parsed.items)
         ELSE IF parsed.kind = "null" THEN SplitLines(response.text)
         ELSE IF KeywordsArrayField(parsed) # 0
              THEN StringifyTrimmed(parsed.fields[KeywordsArrayField(parsed)][2].items)
         ELSE SplitLines(response.text)

(***************************************************************************)
(* extractKeywordsFromLLMResponse applied to short response texts: JSON    *)
(* texts of small values, and texts that are not JSON.                     *)
(***************************************************************************)
MaxItems == 2
MaxTextLen == 4

\* Elements of a JSON list.
ExtractItems ==
    {Str(<<"a">>), Str(<<" ", "b", " ">>), Str(<<>>), Str(<<" ">>), Num(<<"5">>), JsonNull}

ExtractLists == {JsonArray(l) : l \in VectorsOver(ExtractItems, MaxItems)}

\* A field that is not the keywords field, and values that are not lists.
OtherField == <<<<"n">>, Num(<<"2">>)>>
ExtractPrimitives == {Num(<<"5">>), JsonNull, Str(<<"a", ",", "b">>), Str(<<"a">>)}

\* The JSON values: lists, records with and without a keywords list, and
\* primitives.  The keys of a record are distinct.
ExtractValues ==
    ExtractLists
    \cup {JsonObject(<<<<Keywords, l>>>>) : l \in ExtractLists}
    \cup {JsonObject(<<OtherField, <<Keywords, l>>>>) : l \in ExtractLists}
    \cup {JsonObject(<<<<Keywords, v>>, OtherField>>) : v \in ExtractPrimitives}
    \cup {JsonObject(<<<<<<"r">>, l>>, OtherField>>) : l \in ExtractLists}
    \cup {JsonObject(<<>>), JsonObject(<<OtherField>>)}
    \cup ExtractPrimitives

\* Characters of texts that are no JSON text whatever their order: a JSON
\* text over them would need a closing bracket, a digit or a literal.
PlainCharacters == {"a", ",", " ", "\n", "[", "{"}

InitExt ==
    /\ llmResponse \in {JsonResponse(v) : v \in ExtractValues}
                       \cup {TextResponse(t) : t \in VectorsOver(PlainCharacters, MaxTextLen)}
    /\ extracted = None
    /\ CosIdle /\ TopIdle /\ ValIdle /\ PostIdle /\ AuxIdle

CallExtract ==
    /\ extracted = None
    /\ extracted' = Return(extractKeywordsFromLLMResponse(llmResponse))
    /\ UNCHANGED <<llmResponse, cosVars, topVars, valVars, postVars, auxVars>>

NextExt == CallExtract

SpecExt == InitExt /\ [][NextExt]_vars

\* The list the structured reading projects: the root list, else the list
\* in the keywords field; <<>> with found FALSE when the text has neither.
StructuredList ==
    IF llmResponse.parsed.threw THEN [found |-> FALSE]
    ELSE LET root == llmResponse.parsed.value IN
         IF root.kind = "array" THEN [found |-> TRUE, items |-> root.items]
         ELSE IF root.kind = "object"
                 /\ \E f \in 1..Len(root.fields) :
                        root.fields[f][1] = Keywords /\ root.fields[f][2].kind = "array"
         THEN [found |-> TRUE,
               items |-> root.fields[CHOOSE f \in 1..Len(root.fields) :
                                         root.fields[f][1] = Keywords][2].items]
         ELSE [found |-> FALSE]

\* The k-th position of a set of positions, counted from the front.
NthOf(positions, k) ==
    CHOOSE i \in positions : Cardinality({j \in positions : j <= i}) = k

\* The strings of seq at the given positions, in order.
Selected(seq, positions) ==
    [k \in 1..Cardinality(positions) |-> Str(seq[NthOf(positions, k)])]

\* C11: when the text parses to a list, or to a record whose keywords field
\* is a list, the result is that list's elements, each as a trimmed string,
\* those empty after trimming dropped, in order.
C11_StructuredProjection ==
    (extracted # None /\ StructuredList.found) =>
        LET trimmed == [i \in 1..Len(StructuredList.items) |->
                            trim(StructuredList.items[i].text)]
        IN  extracted.value = Selected(trimmed, {i \in 1..Len(trimmed) : trimmed[i] # <<>>})

C11_Witness ==
    /\ llmResponse = JsonResponse(JsonObject(<<OtherField,
                         <<Keywords, JsonArray(<<Str(<<" ">>), Str(<<" ", "b", " ">>)>>)>>>>))
    /\ extracted = Return(<<Str(<<"b">>)>>)

C11_WitnessRootList ==
    /\ llmResponse = JsonResponse(JsonArray(<<Num(<<"5">>), JsonNull>>))
    /\ extracted = Return(<<Str(<<"5">>), Str(<<"n", "u", "l", "l">>)>>)

\* C12: when the text does not parse, the result is its comma and newline
\* separated segments, each trimmed, without those that are empty and those
\* that begin with '[' or '{', in order.
C12_SplitFallback ==
    (extracted # None /\ llmResponse.parsed.threw) =>
        LET segments == SplitAt(llmResponse.text, {",", "\n"}, 1, <<>>)
            trimmed == [i \in 1..Len(segments) |-> trim(segments[i])]
        IN  /\ JoinWith(segments, <<",">>)
                 = [i \in 1..Len(llmResponse.text) |->
                       IF llmResponse.text[i] = "\n" THEN "," ELSE llmResponse.text[i]]
            /\ \A i \in 1..Len(segments) : "," \notin Range(segments[i])
                                           /\ "\n" \notin Range(segments[i])
            /\ extracted.value
                 = Selected(trimmed, {i \in 1..Len(trimmed) :
                                         /\ trimmed[i] # <<>>
                                         /\ trimmed[i][1] \notin {"[", "{"}})

C12_Witness ==
    /\ llmResponse = TextResponse(<<"a", ",", "[", "a">>)
    /\ extracted = Return(<<Str(<<"a">>)>>)

\* C13: a text that parses but is neither a list nor a record with a
\* keywords list yields the empty sequence; only texts that do not parse
\* are split.
C13_UnrecognizedYieldsEmpty ==
    (extracted # None /\ ~llmResponse.parsed.threw /\ ~StructuredList.found) =>
        extracted.value = <<>>

(***************************************************************************)
(* validateKeywords applied to short candidate lists, and applied again to *)
(* its own result.                                                         *)
(***************************************************************************)
MaxCandidates == 4
CandidateWords == {<<"a">>, <<"b">>, <<"x">>}

InitVal ==
    /\ candidateKeywords \in VectorsOver({Str(w) : w \in CandidateWords}, MaxCandidates)
    /\ allowedKeywords \in SUBSET CandidateWords
    /\ validated = None
    /\ validatedAgain = None
    /\ CosIdle /\ TopIdle /\ ExtIdle /\ PostIdle /\ AuxIdle

CallValidateKeywords ==
    /\ validated = None
    /\ validated' = Return(validateKeywords(candidateKeywords, allowedKeywords))
    /\ UNCHANGED <<candidateKeywords, allowedKeywords, validatedAgain, cosVars, topVars, extVars,
                   postVars, auxVars>>

CallValidateKeywordsAgain ==
    /\ validated # None
    /\ validatedAgain = None
    /\ validatedAgain' = Return(validateKeywords(validated.value, allowedKeywords))
    /\ UNCHANGED <<candidateKeywords, allowedKeywords, validated, cosVars, topVars, extVars,
                   postVars, auxVars>>

NextVal == CallValidateKeywords \/ CallValidateKeywordsAgain

SpecVal == InitVal /\ [][NextVal]_vars

\* The positions of the candidates that are members of the allowed set.
KeptPositions ==
    {i \in 1..Len(candidateKeywords) : candidateKeywords[i].text \in allowedKeywords}

\* The k-th of those positions, counted from the front.
KeptPosition(k) ==
    CHOOSE i \in KeptPositions : Cardinality({j \in KeptPositions : j <= i}) = k

\* C10: validateKeywords returns the allowed candidates, each occurrence kept,
\* in the candidates' order; filtering the result again changes nothing.
C10_ValidateIsOrderedFilter ==
    /\ validated # None =>
          /\ Len(validated.value) = Cardinality(KeptPositions)
          /\ \A k \in 1..Len(validated.value) :
                 validated.value[k] = candidateKeywords[KeptPosition(k)]
    /\ validatedAgain # None => validatedAgain = validated

C10_Witness ==
    /\ candidateKeywords = <<Str(<<"a">>), Str(<<"x">>), Str(<<"b">>), Str(<<"a">>)>>
    /\ allowedKeywords = {<<"a">>, <<"b">>}
    /\ validated = Return(<<Str(<<"a">>), Str(<<"b">>), Str(<<"a">>)>>)
    /\ validatedAgain = validated


(***************************************************************************)
(* lib/config, and what the process finds on disk.                         *)
(***************************************************************************)
TargetKeywordCountMin == 10
TargetKeywordCountMax == 15
ShortlistSize == 50
KeywordCountFloor == 1
KeywordCountCeiling == 50

\* config.*ApiKey: TRUE for a non-empty key.
\* A SHORTLIST_SIZE below the size of the index.
SmallShortlistSize == 2

\* The configurations: every combination of keys with the default shortlist
\* size, and a small shortlist size with an embedding and generation key.
Configs ==
    [openaiApiKey : BOOLEAN, geminiApiKey : BOOLEAN, openrouterApiKey : BOOLEAN,
     shortlistSize : {ShortlistSize}]
    \cup [openaiApiKey : BOOLEAN, geminiApiKey : {TRUE}, openrouterApiKey : {FALSE},
          shortlistSize : {SmallShortlistSize}]

\* data/keywords.json: the taxonomy.
Taxonomy ==
  <<<<"w", "a", "r">>,
     <<"l", "o", "v", "e">>,
     <<"w", "a", "r", " ", "f", "i", "l", "m">>,
     <<"s", "p", "y">>,
     <<"t", "i", "m", "e", " ", "t", "r", "a", "v", "e", "l">>,
     <<"h", "e", "i", "s", "t">>,
     <<"r", "o", "b", "o", "t">>,
     <<"s", "p", "a", "c", "e", " ", "w", "a", "r">>,
     <<"r", "o", "a", "d", " ", "t", "r", "i", "p">>,
     <<"n", "o", "i", "r">>,
     <<"z", "o", "m", "b", "i", "e">>,
     <<"c", "o", "u", "r", "t", "r", "o", "o", "m", " ", "d", "r", "a", "m", "a">>,
     <<"l", "o", "v", "e", " ", "t", "r", "i", "a", "n", "g", "l", "e">>,
     <<"w", "e", "s", "t", "e", "r", "n">>,
     <<"A", "n", "i", "m", "e">>,
     <<"s", "e", "a">>>>

TaxonomyEmbeddings ==
  <<<<1, 0>>,
     <<0, 1>>,
     <<1, 1>>,
     <<2, 0>>,
     <<-1, 0>>,
     <<0, -1>>,
     <<1, -1>>,
     <<-1, 1>>,
     <<0, 2>>,
     <<1, 1>>,
     <<-1, -1>>,
     <<0, 1>>,
     <<1, 0>>,
     <<2, 1>>,
     <<1, 2>>,
     <<0, 0>>>>

\* data/keyword-index.json as the build script writes it with embeddings,
\* over the first n keywords of the taxonomy.
BuiltIndex(n) ==
    [keywords |-> [i \in 1..n |->
        [keyword |-> Taxonomy[i], embedding |-> TaxonomyEmbeddings[i]]]]

\* The index the build script writes when no key is set: no embeddings.
BuiltIndexWithoutEmbeddings(n) ==
    [keywords |-> [i \in 1..n |-> [keyword |-> Taxonomy[i], embedding |-> <<>>]]]

\* An index file in which the entries from position n on lack their embedding.
BuiltIndexPartly(n) ==
    [keywords |-> [i \in 1..Len(Taxonomy) |->
        [keyword |-> Taxonomy[i],
         embedding |-> IF i < n THEN TaxonomyEmbeddings[i] ELSE <<>>]]]

SmallIndexSize == 3

File(content) == [exists |-> TRUE, content |-> content]

\* The data directory: the index file and the keywords file.
Storages ==
    {[indexFile |-> File(x), keywordsFile |-> File(Taxonomy)] :
        x \in {BuiltIndex(Len(Taxonomy)), BuiltIndex(SmallIndexSize),
               BuiltIndexWithoutEmbeddings(Len(Taxonomy)),
               BuiltIndexPartly(SmallIndexSize)}}
    \cup {[indexFile |-> Missing, keywordsFile |-> File(Taxonomy)],
          [indexFile |-> Missing, keywordsFile |-> Missing]}

(***************************************************************************)
(* app/api/match: buildKeywordIndexFromKeywords, loadKeywordIndex          *)
(***************************************************************************)
buildKeywordIndexFromKeywords(disk) ==
    IF ~disk.keywordsFile.exists THEN Throw("Keywords file not found")
    ELSE Return([keywords |-> [i \in 1..Len(disk.keywordsFile.content) |->
                    [keyword |-> disk.keywordsFile.content[i], embedding |-> <<>>]]])

LacksEmbedding(index) ==
    \E i \in 1..Len(index.keywords) : Len(index.keywords[i].embedding) = 0

\* loadKeywordIndex: its outcome and the cache it leaves.
loadKeywordIndex(cache, disk, cfg) ==
    IF cache # None THEN [outcome |-> Return(cache), cache |-> cache]
    ELSE IF ~disk.indexFile.exists
    THEN IF ~cfg.openaiApiKey
         THEN LET built == buildKeywordIndexFromKeywords(disk) IN
              [outcome |-> built, cache |-> IF built.threw THEN cache ELSE built.value]
         ELSE [outcome |-> Throw("Keyword index not found. Please run: npm run build-keyword-index"),
               cache |-> cache]
    ELSE LET parsed == disk.indexFile.content IN
         IF (cfg.openaiApiKey \/ cfg.geminiApiKey) /\ LacksEmbedding(parsed)
         THEN [outcome |-> Throw("Keyword index is missing embeddings. Rebuild with: npm run build-keyword-index"),
               cache |-> parsed]
         ELSE [outcome |-> Return(parsed), cache |-> parsed]

\* getAllowedKeywordsSet
getAllowedKeywordsSet(index) == {index.keywords[i].keyword : i \in 1..Len(index.keywords)}

(***************************************************************************)
(* app/api/match: POST                                                     *)
(***************************************************************************)
Undefined == [kind |-> "undefined"]

Max(a, b) == IF a > b THEN a ELSE b

\* The responses.
Json(status, fields) == [status |-> status, body |-> fields, headers |-> {}]
ErrorResponse(status, message) == Json(status, [error |-> message])
MatchResponse(keywords, shortlistSize, validatedCount, method) ==
    Json(200, [keywords |-> keywords, shortlistSize |-> shortlistSize,
               validatedCount |-> validatedCount, method |-> method])

\* The choice that does not look at the provider the request names.
SelectProviderIgnoringRequest(requested, cfg) ==
    IF cfg.openrouterApiKey THEN "openrouter"
    ELSE IF cfg.geminiApiKey THEN "gemini"
    ELSE IF cfg.openaiApiKey THEN "openai"
    ELSE "null"

\* The provider chosen for the LLM call, "null" when there is none.
SelectProvider(requested, cfg) ==
    IF requested = "openrouter" /\ cfg.openrouterApiKey THEN "openrouter"
    ELSE IF requested = "gemini" /\ cfg.geminiApiKey THEN "gemini"
    ELSE IF requested = "openai" /\ cfg.openaiApiKey THEN "openai"
    ELSE IF cfg.openrouterApiKey THEN "openrouter"
    ELSE IF cfg.geminiApiKey THEN "gemini"
    ELSE IF cfg.openaiApiKey THEN "openai"
    ELSE "null"

\* keywordCount ? Math.min(Math.max(parseInt(String(keywordCount)), 1), 50)
\*              : config.targetKeywordCount.max, for an integer or absent count.
RequestedCount(keywordCount) ==
    IF keywordCount.kind = "number" /\ keywordCount.n # 0
    THEN Min(Max(keywordCount.n, KeywordCountFloor), KeywordCountCeiling)
    ELSE TargetKeywordCountMax

AlphaNumerics == Range(LowerCaseLetters) \cup Range(DigitCharacters)

\* The score the lexical fallback gives a keyword.
LexicalScore(keyword, normalizedDescription) ==
    LET keywordLower == toLowerCase(keyword)
        keywordWords == SplitRuns(keywordLower, AlphaNumerics, 1, <<>>)
        overlap == Cardinality({i \in 1..Len(keywordWords) :
                       /\ Len(keywordWords[i]) > 2
                       /\ includes(normalizedDescription, keywordWords[i])})
    IN  (IF includes(normalizedDescription, keywordLower) THEN 3 ELSE 0) + overlap

\* (a, b) => b.score - a.score || a.keyword.localeCompare(b.keyword), its sign
compareScore(a, b) ==
    IF b.score # a.score THEN (IF b.score > a.score THEN 1 ELSE -1)
    ELSE localeCompare(a.keyword, b.keyword)

RECURSIVE InsertByScore(_, _)
InsertByScore(sorted, x) ==
    IF sorted = <<>> THEN <<x>>
    ELSE IF compareScore(sorted[1], x) > 0 THEN <<x>> \o sorted
    ELSE <<sorted[1]>> \o InsertByScore(Tail(sorted), x)

RECURSIVE SortByScore(_, _)
\* Array.prototype.sort with compareScore, over the first n elements.
SortByScore(seq, n) ==
    IF n = 0 THEN <<>>
    ELSE InsertByScore(SortByScore(seq, n - 1), seq[n])

RECURSIVE PositiveScores(_)
\* .filter((item) => item.score > 0)
PositiveScores(items) ==
    IF items = <<>> THEN <<>>
    ELSE IF items[1].score > 0 THEN <<items[1]>> \o PositiveScores(Tail(items))
    ELSE PositiveScores(Tail(items))

\* .filter((k) => allowedKeywords.has(k))
FilterHas(keywords, allowed) == FilterAllowed(keywords, allowed, Len(keywords))

\* The keywords as JSON strings.
AsStrings(keywords) == [i \in 1..Len(keywords) |-> Str(keywords[i])]

\* The branch condition that looks at the OpenAI key only.
TakesLexicalBranchWithoutOpenAI(cfg, useLLM) == ~cfg.openaiApiKey /\ ~useLLM

\* !config.openaiApiKey && !config.geminiApiKey && !useLLM
TakesLexicalBranch(cfg, useLLM) == ~cfg.openaiApiKey /\ ~cfg.geminiApiKey /\ ~useLLM

\* The lexical branch of POST.
\* The scored, filtered and sorted keywords of the lexical fallback.
keywordsWithScore(description, index) ==
    LET normalizedDescription == toLowerCase(description)
        scored == [i \in 1..Len(index.keywords) |->
                      [keyword |-> index.keywords[i].keyword,
                       score |-> LexicalScore(index.keywords[i].keyword, normalizedDescription)]]
        positive == PositiveScores(scored)
    IN  SortByScore(positive, Len(positive))

LexicalMatch(description, index, keywordCount) ==
    LET ranked == keywordsWithScore(description, index)
        count == RequestedCount(keywordCount)
        directKeywords ==
            FilterHas(
                AsStrings(SliceTo([i \in 1..Len(ranked) |-> ranked[i].keyword], count)),
                getAllowedKeywordsSet(index))
    IN  MatchResponse(directKeywords, Len(index.keywords), Len(directKeywords), "lexical")

\* Step 3 of POST: the top of the shortlist, returned without an LLM.
DirectMatch(topKeywords, index, keywordCount) ==
    LET shortlistKeywords == [i \in 1..Len(topKeywords) |-> topKeywords[i].keyword]
        directKeywords ==
            FilterHas(AsStrings(SliceTo(shortlistKeywords, RequestedCount(keywordCount))),
                             getAllowedKeywordsSet(index))
    IN  MatchResponse(directKeywords, Len(topKeywords), Len(directKeywords), "direct")

\* The keywords POST reads out of the LLM's text.
SelectedKeywords(content) ==
    LET outcome == JSONparse(content) IN
    IF outcome.threw THEN extractKeywordsFromLLMResponse(content)
    ELSE LET parsed == outcome.value IN
         IF parsed.kind = "array" THEN parsed.items
         ELSE IF parsed.kind = "null" THEN extractKeywordsFromLLMResponse(content)
         ELSE IF KeywordsArrayField(parsed) # 0
              THEN parsed.fields[KeywordsArrayField(parsed)][2].items
         ELSE IF parsed.kind = "object" /\ FindArrayField(parsed.fields, 1) # 0
              THEN parsed.fields[FindArrayField(parsed.fields, 1)][2].items
         ELSE <<>>

\* Step 4 without the fallback to the shortlist.
LlmMatchNoFallback(content, topKeywords, index) ==
    LET validatedKeywords ==
            validateKeywords(SelectedKeywords(content), getAllowedKeywordsSet(index))
    IN  MatchResponse(SliceTo(validatedKeywords, TargetKeywordCountMax), Len(topKeywords),
                      Len(validatedKeywords), "llm")

\* Step 4 of POST: validation of the LLM's keywords, and the fallback.
LlmMatch(content, topKeywords, index) ==
    LET allowedSet == getAllowedKeywordsSet(index)
        shortlistKeywords == [i \in 1..Len(topKeywords) |-> topKeywords[i].keyword]
        validatedKeywords == validateKeywords(SelectedKeywords(content), allowedSet)
        finalKeywords ==
            IF Len(validatedKeywords) < TargetKeywordCountMin
            THEN FilterHas(AsStrings(SliceTo(shortlistKeywords, TargetKeywordCountMax)),
                           allowedSet)
            ELSE SliceTo(validatedKeywords, TargetKeywordCountMax)
    IN  MatchResponse(finalKeywords, Len(topKeywords), Len(validatedKeywords), "llm")

(***************************************************************************)
(* The match route as a process: requests served one after another by one  *)
(* server process, each in three steps cut at the awaits of POST.          *)
(***************************************************************************)
MaxRequests == 2

Descriptions ==
    {<<"A", " ", "w", "a", "r", " ", "f", "i", "l", "m", " ", "a", "b", "o", "u", "t", " ", "l", "o", "v", "e">>,
     <<"R", "O", "B", "O", "T", " ", "H", "E", "I", "S", "T", " ", "a", "t", " ", "s", "e", "a">>}

\* The request bodies: well-formed ones with a usable description, ones whose
\* description is absent, empty or not a string, and one that is not JSON.
Bodies ==
    [description : {Str(d) : d \in Descriptions},
     useLLM : BOOLEAN,
     keywordCount : {Undefined} \cup {[kind |-> "number", n |-> n] : n \in {0, 2, 60}},
     llmProvider : {"openai", "gemini", "openrouter", "undefined"}]
    \cup [description : {Undefined, Str(<<>>), Num(<<"7">>)},
          useLLM : {FALSE}, keywordCount : {Undefined}, llmProvider : {"undefined"}]
    \cup {[malformed |-> TRUE]}

\* What the embedding provider answers.
EmbeddingOutcomes ==
    {Return(<<1, 1>>), Return(<<-1, 2>>), Return(<<1>>), Throw("Embedding provider error")}

\* Texts a generation provider answers with.
LlmContents ==
    {JsonResponse(JsonObject(<<<<Keywords, JsonArray(<<Str(<<"s", "p", "y">>),
        Str(<<"t", "i", "m", "e", " ", "t", "r", "a", "v", "e", "l">>),
        Str(<<"h", "e", "i", "s", "t">>),
        Str(<<"r", "o", "b", "o", "t">>),
        Str(<<"s", "p", "a", "c", "e", " ", "w", "a", "r">>),
        Str(<<"r", "o", "a", "d", " ", "t", "r", "i", "p">>),
        Str(<<"n", "o", "i", "r">>),
        Str(<<"z", "o", "m", "b", "i", "e">>),
        Str(<<"c", "o", "u", "r", "t", "r", "o", "o", "m", " ", "d", "r", "a", "m", "a">>),
        Str(<<"l", "o", "v", "e", " ", "t", "r", "i", "a", "n", "g", "l", "e">>),
        Str(<<"m", "a", "d", "e", " ", "u", "p">>)>>)>>>>)),
     JsonResponse(JsonObject(<<<<Keywords, JsonArray(<<Str(<<"w", "a", "r">>),
        Str(<<"m", "a", "d", "e", " ", "u", "p">>),
        Str(<<"l", "o", "v", "e">>)>>)>>>>)),
     JsonResponse(JsonArray(<<Str(<<"w", "a", "r">>),
        Str(<<"l", "o", "v", "e">>),
        Str(<<"w", "a", "r", " ", "f", "i", "l", "m">>),
        Str(<<"s", "p", "y">>),
        Str(<<"t", "i", "m", "e", " ", "t", "r", "a", "v", "e", "l">>),
        Str(<<"h", "e", "i", "s", "t">>),
        Str(<<"r", "o", "b", "o", "t">>),
        Str(<<"s", "p", "a", "c", "e", " ", "w", "a", "r">>),
        Str(<<"r", "o", "a", "d", " ", "t", "r", "i", "p">>),
        Str(<<"n", "o", "i", "r">>),
        Str(<<"z", "o", "m", "b", "i", "e">>),
        Str(<<"c", "o", "u", "r", "t", "r", "o", "o", "m", " ", "d", "r", "a", "m", "a">>),
        Str(<<"l", "o", "v", "e", " ", "t", "r", "i", "a", "n", "g", "l", "e">>),
        Str(<<"w", "e", "s", "t", "e", "r", "n">>),
        Str(<<"A", "n", "i", "m", "e">>),
        Str(<<"s", "e", "a">>),
        Str(<<"w", "a", "r">>)>>)),
     JsonResponse(JsonArray(<<Str(<<"w", "a", "r">>),
        Num(<<"5">>),
        JsonNull,
        Str(<<" ", "l", "o", "v", "e">>),
        Str(<<"L", "o", "v", "e">>)>>)),
     JsonResponse(JsonObject(<<<<<<"n">>, Num(<<"2">>)>>,
                               <<<<"r">>, JsonArray(<<Str(<<"s", "p", "y">>),
        Str(<<"t", "i", "m", "e", " ", "t", "r", "a", "v", "e", "l">>),
        Str(<<"h", "e", "i", "s", "t">>),
        Str(<<"r", "o", "b", "o", "t">>),
        Str(<<"s", "p", "a", "c", "e", " ", "w", "a", "r">>),
        Str(<<"r", "o", "a", "d", " ", "t", "r", "i", "p">>),
        Str(<<"n", "o", "i", "r">>),
        Str(<<"z", "o", "m", "b", "i", "e">>),
        Str(<<"c", "o", "u", "r", "t", "r", "o", "o", "m", " ", "d", "r", "a", "m", "a">>),
        Str(<<"l", "o", "v", "e", " ", "t", "r", "i", "a", "n", "g", "l", "e">>),
        Str(<<"u", "n", "k", "n", "o", "w", "n">>)>>)>>>>)),
     JsonResponse(JsonObject(<<<<Keywords, Str(<<"w", "a", "r">>)>>>>)),
     JsonResponse(Num(<<"5">>)),
     JsonResponse(JsonNull),
     TextResponse(<<"w", "a", "r", ",", " ", "l", "o", "v", "e", "\n", "s", "p", "y", ",", " ", "m", "a", "d", "e", " ", "u", "p">>),
     TextResponse(<<>>)}

\* The retryDelay of the RetryInfo detail in a provider's error body.
RetryDelays == {Undefined, Str(<<"7", "s">>), Str(<<"1", "2", ".", "5", "s">>), Str(<<"s", "o", "o", "n">>)}

\* What the generation provider answers: a completion, with or without a
\* usage block; an HTTP error status; or no answer at all.
GenerationOutcomes ==
    [kind : {"ok"}, content : LlmContents, usage : BOOLEAN]
    \cup [kind : {"status"}, status : {429, 500}, retryDelay : RetryDelays]
    \cup {[kind |-> "threw"]}

Init ==
    /\ config \in Configs
    /\ storage \in Storages
    /\ keywordIndexCache = None
    /\ pc = "idle" /\ body = None /\ requestIndex = NoIndex
    /\ selectedProvider = "null" /\ shortlist = <<>> /\ calls = <<>>
    /\ llmContent = NoContent /\ providerAnswer = None
    /\ httpResponse = None /\ served = 0
    /\ CosIdle /\ TopIdle /\ ValIdle /\ ExtIdle /\ AuxIdle

\* POST returns (or its catch block does).
Respond(r) ==
    /\ pc' = "done"
    /\ httpResponse' = r

\* POST up to its first await on a provider: the body, the index, the
\* provider choice, the lexical branch and the entry of embedText.
PostStart ==
    /\ pc \in {"idle", "done"}
    /\ served < MaxRequests
    /\ served' = served + 1
    /\ \E b \in Bodies :
        /\ body' = b
        /\ llmContent' = NoContent /\ providerAnswer' = None
        /\ UNCHANGED <<config, storage>>
        /\ IF "malformed" \in DOMAIN b
           THEN /\ Respond(ErrorResponse(500, "Unexpected token in JSON"))
                /\ requestIndex' = NoIndex /\ selectedProvider' = "null"
                /\ shortlist' = <<>> /\ calls' = <<>>
                /\ UNCHANGED keywordIndexCache
           ELSE IF b.description.kind # "string" \/ b.description.text = <<>>
           THEN /\ Respond(ErrorResponse(400, "Description is required"))
                /\ requestIndex' = NoIndex /\ selectedProvider' = "null"
                /\ shortlist' = <<>> /\ calls' = <<>>
                /\ UNCHANGED keywordIndexCache
           ELSE LET loaded == loadKeywordIndex(keywordIndexCache, storage, config)
                    provider == IF b.useLLM THEN SelectProvider(b.llmProvider, config)
                                ELSE "null"
                IN
                /\ keywordIndexCache' = loaded.cache
                /\ shortlist' = <<>>
                /\ IF loaded.outcome.threw
                   THEN /\ Respond(ErrorResponse(500, loaded.outcome.message))
                        /\ requestIndex' = NoIndex /\ selectedProvider' = "null"
                        /\ calls' = <<>>
                   ELSE /\ requestIndex' = loaded.outcome.value
                        /\ IF /\ b.useLLM /\ ~config.openaiApiKey
                              /\ ~config.geminiApiKey /\ ~config.openrouterApiKey
                           THEN /\ Respond(ErrorResponse(500, "No AI API key is configured"))
                                /\ selectedProvider' = "null" /\ calls' = <<>>
                           ELSE /\ selectedProvider' = provider
                                /\ IF TakesLexicalBranch(config, b.useLLM)
                                   THEN /\ Respond(LexicalMatch(b.description.text,
                                                       loaded.outcome.value, b.keywordCount))
                                        /\ calls' = <<>>
                                   ELSE /\ calls' = <<[call |-> "embedText"]>>
                                        /\ IF ~config.openaiApiKey /\ ~config.geminiApiKey
                                           THEN Respond(ErrorResponse(500, "No AI API key is set"))
                                           ELSE pc' = "embedding" /\ httpResponse' = None
    /\ UNCHANGED <<cosVars, topVars, valVars, extVars, auxVars>>

\* Whether POST has a branch that calls the selected provider.
CallsProvider ==
    \/ selectedProvider = "openrouter"
    \/ selectedProvider = "openai" /\ config.openaiApiKey
    \/ selectedProvider = "gemini" /\ config.geminiApiKey

\* From the answer of the embedding provider to the next await: the
\* shortlist, the direct answer, the call of the generation provider.
PostEmbedded ==
    /\ pc = "embedding"
    /\ \E e \in EmbeddingOutcomes :
        IF e.threw
        THEN /\ Respond(ErrorResponse(500, e.message))
             /\ UNCHANGED <<shortlist, calls>>
        ELSE LET found == findTopSimilar(e.value, requestIndex, config.shortlistSize) IN
             IF found.threw
             THEN /\ Respond(ErrorResponse(500, found.message))
                  /\ UNCHANGED <<shortlist, calls>>
             ELSE /\ shortlist' = found.value
                  /\ IF ~body.useLLM
                     THEN /\ Respond(DirectMatch(found.value, requestIndex, body.keywordCount))
                          /\ UNCHANGED calls
                     ELSE IF CallsProvider
                     THEN /\ pc' = "generating"
                          /\ calls' = Append(calls, [call |-> "generate",
                                                     provider |-> selectedProvider])
                          /\ UNCHANGED httpResponse
                     ELSE /\ Respond(LlmMatch(llmContent, found.value, requestIndex))
                          /\ UNCHANGED calls
    /\ UNCHANGED <<config, storage, keywordIndexCache, body, requestIndex,
                   selectedProvider, llmContent, providerAnswer, served, cosVars, topVars,
                   valVars,
                   extVars, auxVars>>

RecordUsage(provider, withTokens) ==
    [call |-> "recordUsage", provider |-> provider, tokens |-> withTokens]

RECURSIVE ParseDigits(_, _)
\* parseInt(digits, 10) for the first n characters of a run of digits
ParseDigits(digits, n) ==
    IF n = 0 THEN 0
    ELSE 10 * ParseDigits(digits, n - 1) + (PositionIn(DigitCharacters, digits[n]) - 1)

Null == [kind |-> "null"]

\* retryDelay.match(/(\d+)/), parsed: the first run of digits, null without one.
RetryAfterSeconds(retryDelay) ==
    IF retryDelay.kind # "string" THEN Null
    ELSE LET runs == SplitRuns(retryDelay.text, Range(DigitCharacters), 1, <<>>) IN
         IF runs = <<>> THEN Null
         ELSE [kind |-> "number", n |-> ParseDigits(runs[1], Len(runs[1]))]

QuotaResponse(retryAfterSeconds) ==
    [status |-> 429,
     body |-> [error |-> "Gemini quota exceeded. Please retry after the suggested delay or check your plan and billing.",
               retryAfterSeconds |-> retryAfterSeconds],
     headers |-> IF retryAfterSeconds # Null
                 THEN {<<"Retry-After", retryAfterSeconds.n>>} ELSE {}]

\* A handler that answers a provider's reply by calling the provider again.
PostGeneratedRetrying ==
    /\ pc = "generating"
    /\ Len(calls) < 4
    /\ calls' = Append(calls, [call |-> "generate", provider |-> selectedProvider])
    /\ UNCHANGED <<config, storage, keywordIndexCache, pc, body, requestIndex,
                   selectedProvider, shortlist, llmContent, providerAnswer, httpResponse,
                   served, cosVars, topVars, valVars, extVars, auxVars>>

\* From the answer of the generation provider to the response.
PostGenerated ==
    /\ pc = "generating"
    /\ \E g \in GenerationOutcomes :
        /\ providerAnswer' = g
        /\ IF g.kind = "threw"
           THEN /\ Respond(ErrorResponse(500, "fetch failed"))
                /\ UNCHANGED <<calls, llmContent>>
           ELSE IF g.kind = "status"
           THEN IF selectedProvider = "openai"
                THEN /\ Respond(ErrorResponse(500, "OpenAI API error"))
                     /\ UNCHANGED <<calls, llmContent>>
                ELSE /\ calls' = Append(calls, RecordUsage(selectedProvider, FALSE))
                     /\ UNCHANGED llmContent
                     /\ IF selectedProvider = "gemini" /\ g.status = 429
                        THEN Respond(QuotaResponse(RetryAfterSeconds(g.retryDelay)))
                        ELSE IF selectedProvider = "gemini"
                        THEN Respond(ErrorResponse(500, "Gemini LLM error"))
                        ELSE Respond(ErrorResponse(500, "OpenRouter LLM error"))
           ELSE /\ calls' = Append(calls, RecordUsage(selectedProvider, g.usage))
                /\ llmContent' = g.content
                /\ Respond(LlmMatch(g.content, shortlist, requestIndex))
    /\ UNCHANGED <<config, storage, keywordIndexCache, body, requestIndex,
                   selectedProvider, shortlist, served, cosVars, topVars, valVars,
                   extVars, auxVars>>

Next == PostStart \/ PostEmbedded \/ PostGenerated

Spec == Init /\ [][Next]_vars

\* The keywords of the entries of the index POST loaded.
IndexKeywords == {requestIndex.keywords[e].keyword : e \in 1..Len(requestIndex.keywords)}

Succeeded == httpResponse # None /\ httpResponse.status = 200

\* C1: in every success response of the match route, whatever the mode and
\* whatever the generation provider returned, every string of the keywords
\* list is the keyword of an entry of the loaded keyword index.
C1_ClosedWorldOutput ==
    Succeeded =>
        \A i \in 1..Len(httpResponse.body.keywords) :
            httpResponse.body.keywords[i].kind = "string" =>
                httpResponse.body.keywords[i].text \in IndexKeywords

\* An LLM answer with ten keywords of the index and one that is not in it:
\* the response keeps the ten, with no fallback to the shortlist.
C1_Witness ==
    /\ pc = "done" /\ Succeeded
    /\ httpResponse.body.method = "llm"
    /\ ~llmContent.parsed.threw
    /\ llmContent.parsed.value.kind = "object"
    /\ KeywordsArrayField(llmContent.parsed.value) = 1
    /\ LET returned == llmContent.parsed.value.fields[1][2].items IN
       /\ returned[Len(returned)].text \notin IndexKeywords
       /\ httpResponse.body.validatedCount = Len(returned) - 1
       /\ httpResponse.body.keywords = SubSeq(returned, 1, Len(returned) - 1)

\* The keywords of the request's shortlist, as the response carries them.
ShortlistKeywords == [i \in 1..Len(shortlist) |-> Str(shortlist[i].keyword)]

\* A success response of the refinement branch.
Refined == Succeeded /\ httpResponse.body.method = "llm"

\* The keywords POST took from the provider's text, and the positions of
\* those that are keywords of the index.
ProviderKeywords == SelectedKeywords(llmContent)
SurvivingPositions ==
    {i \in 1..Len(ProviderKeywords) :
        ProviderKeywords[i].kind = "string" /\ ProviderKeywords[i].text \in IndexKeywords}

\* C14: with fewer than the minimum (10) provider keywords surviving
\* validation the result is the first entries of the shortlist, at most the
\* maximum (15); otherwise it is the surviving provider keywords in provider
\* order, cut at the maximum.
C14_FallbackLaw ==
    Refined =>
        /\ httpResponse.body.validatedCount = Cardinality(SurvivingPositions)
        /\ IF Cardinality(SurvivingPositions) < TargetKeywordCountMin
           THEN httpResponse.body.keywords
                    = SubSeq(ShortlistKeywords, 1, Min(TargetKeywordCountMax, Len(shortlist)))
           ELSE httpResponse.body.keywords
                    = [k \in 1..Min(TargetKeywordCountMax, Cardinality(SurvivingPositions)) |->
                          ProviderKeywords[NthOf(SurvivingPositions, k)]]

\* Two provider keywords survive, and the response is the top of the shortlist.
C14_Witness ==
    /\ Refined
    /\ Cardinality(SurvivingPositions) = 2
    /\ Len(shortlist) > TargetKeywordCountMax
    /\ httpResponse.body.keywords = SubSeq(ShortlistKeywords, 1, TargetKeywordCountMax)
    /\ httpResponse.body.keywords[1] # ProviderKeywords[1]

\* More than the maximum survive, and the response is the first fifteen of them.
C14_WitnessTruncated ==
    /\ Refined
    /\ Cardinality(SurvivingPositions) > TargetKeywordCountMax
    /\ Len(httpResponse.body.keywords) = TargetKeywordCountMax
    /\ httpResponse.body.keywords # SubSeq(ShortlistKeywords, 1, TargetKeywordCountMax)

\* C15: a success response of the refinement branch never holds more than the
\* maximum (15) keywords, and holds at least the minimum (10) whenever the
\* shortlist has that many entries.
C15_AppropriatelySized ==
    Refined =>
        /\ Len(httpResponse.body.keywords) <= TargetKeywordCountMax
        /\ Len(shortlist) >= TargetKeywordCountMin
               => Len(httpResponse.body.keywords) >= TargetKeywordCountMin

\* The provider returned seventeen keywords of the index; fifteen are returned.
C15_Witness ==
    /\ Refined
    /\ httpResponse.body.validatedCount > TargetKeywordCountMax
    /\ Len(shortlist) >= TargetKeywordCountMin
    /\ Len(httpResponse.body.keywords) = TargetKeywordCountMax

\* C16: in the refinement branch the validated candidates are
\* validateKeywords(extractKeywordsFromLLMResponse(raw text), allowed set).
C16_ExtractorThenValidate ==
    (Refined /\ llmContent # NoContent) =>
        httpResponse.body.validatedCount
            = Len(validateKeywords(extractKeywordsFromLLMResponse(llmContent), IndexKeywords))

\* clamp(keywordCount, 1, 50), the maximum (15) when no count is supplied
ClampedCount ==
    IF body.keywordCount.kind = "number"
    THEN (IF body.keywordCount.n < KeywordCountFloor THEN KeywordCountFloor
          ELSE IF body.keywordCount.n > KeywordCountCeiling THEN KeywordCountCeiling
          ELSE body.keywordCount.n)
    ELSE TargetKeywordCountMax

\* C17: in direct mode the result is the first min(clamp(keywordCount, 1, 50),
\* shortlist length) shortlist keywords, for every integer count, 0 included,
\* with method 'direct' and validatedCount the number of keywords returned.
C17_DirectCountClamped ==
    (Succeeded /\ ~body.useLLM /\ calls # <<>>) =>
        /\ httpResponse.body.method = "direct"
        /\ httpResponse.body.keywords
               = SubSeq(ShortlistKeywords, 1, Min(ClampedCount, Len(shortlist)))
        /\ httpResponse.body.validatedCount = Len(httpResponse.body.keywords)

NoCredential ==
    ~config.openaiApiKey /\ ~config.geminiApiKey /\ ~config.openrouterApiKey

\* A request with a usable description that asks for refinement.
RefinementRequested ==
    /\ body # None /\ "malformed" \notin DOMAIN body
    /\ body.description.kind = "string" /\ body.description.text # <<>>
    /\ body.useLLM

\* C18: a request for refinement with no credential configured ends with the
\* no-provider error, and no embedding, generation or usage call is made.
C18_NoProviderAvailable ==
    (pc = "done" /\ RefinementRequested /\ NoCredential) =>
        /\ httpResponse = ErrorResponse(500, "No AI API key is configured")
        /\ calls = <<>>

CallsOf(kind) == {i \in 1..Len(calls) : calls[i].call = kind}

\* C19: when the request completes, every generation call, whether it
\* succeeded, returned an error status or threw, was followed by exactly one
\* recordUsage call for the selected provider; without a generation call
\* nothing is recorded.
C19_UsageRecordedOncePerCall ==
    pc = "done" =>
        /\ Cardinality(CallsOf("recordUsage")) = Cardinality(CallsOf("generate"))
        /\ \A i \in CallsOf("recordUsage") :
               /\ calls[i].provider = selectedProvider
               /\ \E j \in CallsOf("generate") : j < i

\* C20: the cache is populated at most once, only by a load that succeeded,
\* with what that load returned, and is returned by every later load.
C20_CacheFirstSuccessWins ==
    [][/\ keywordIndexCache # None => keywordIndexCache' = keywordIndexCache
       /\ (keywordIndexCache = None /\ keywordIndexCache' # None) =>
              /\ ~loadKeywordIndex(None, storage, config).outcome.threw
              /\ keywordIndexCache' = loadKeywordIndex(None, storage, config).outcome.value
       /\ (keywordIndexCache # None /\ pc' \in {"embedding", "generating"}) =>
              requestIndex' = keywordIndexCache]_vars

\* A request whose body carries a usable description.
UsableDescription ==
    /\ body # None /\ "malformed" \notin DOMAIN body
    /\ body.description.kind = "string" /\ body.description.text # <<>>

EmbeddingCredential == config.openaiApiKey \/ config.geminiApiKey

MissingEmbeddingsError ==
    ErrorResponse(500, "Keyword index is missing embeddings. Rebuild with: npm run build-keyword-index")

\* C21: with a persisted index in which an entry lacks its embedding and an
\* embedding credential configured, every load fails with the configuration
\* error, the cache stays empty and no request gets past the loader.
C21_MissingEmbeddingsAlwaysFatal ==
    (/\ storage.indexFile.exists
     /\ LacksEmbedding(storage.indexFile.content)
     /\ EmbeddingCredential) =>
        /\ keywordIndexCache = None
        /\ (pc = "done" /\ UsableDescription) => httpResponse = MissingEmbeddingsError

\* C23: every keyword of a success response of the refinement branch is a
\* keyword of the shortlist computed for the request.
C23_ResultWithinShortlist ==
    Refined =>
        \A i \in 1..Len(httpResponse.body.keywords) :
            httpResponse.body.keywords[i] \in Range(ShortlistKeywords)

\* The index synthesized from the taxonomy source.
DegradedIndex ==
    [keywords |-> [i \in 1..Len(storage.keywordsFile.content) |->
        [keyword |-> storage.keywordsFile.content[i], embedding |-> <<>>]]]

\* C24: without a persisted index, the loader synthesizes the degraded index
\* when no credential of any provider is configured, and fails when some
\* credential is configured.
C24_DegradedOnlyWithoutCredential ==
    (/\ pc = "done" /\ UsableDescription
     /\ ~storage.indexFile.exists /\ storage.keywordsFile.exists) =>
        IF NoCredential
        THEN keywordIndexCache = DegradedIndex
        ELSE /\ keywordIndexCache = None
             /\ httpResponse = ErrorResponse(500,
                    "Keyword index not found. Please run: npm run build-keyword-index")

\* C25: a request whose index loaded takes the lexical branch exactly when
\* neither OpenAI nor Gemini has a key and refinement is not requested; the
\* branch makes no call and answers with method 'lexical'; every other
\* success, and every shortlist, comes after the embedding call.
C25_LexicalBranch ==
    /\ (Succeeded /\ httpResponse.body.method = "lexical") =>
           /\ ~EmbeddingCredential /\ ~body.useLLM
           /\ calls = <<>> /\ shortlist = <<>>
    /\ (/\ pc = "done" /\ UsableDescription /\ requestIndex # NoIndex
        /\ ~EmbeddingCredential /\ ~body.useLLM) =>
           Succeeded /\ httpResponse.body.method = "lexical"
    /\ (Succeeded /\ httpResponse.body.method # "lexical") =>
           calls # <<>> /\ calls[1].call = "embedText" /\ shortlist # <<>>
    /\ shortlist # <<>> => calls # <<>> /\ calls[1].call = "embedText"

C25_Witness ==
    /\ Succeeded /\ httpResponse.body.method = "lexical"
    /\ Len(httpResponse.body.keywords) >= 2
    /\ config.openrouterApiKey
    /\ calls = <<>>

HasCredential(provider) ==
    \/ provider = "openrouter" /\ config.openrouterApiKey
    \/ provider = "gemini" /\ config.geminiApiKey
    \/ provider = "openai" /\ config.openaiApiKey

ResolutionOrder == <<"openrouter", "gemini", "openai">>

\* C27: for a refinement request whose index loaded, with at least one
\* credential configured, a provider is selected: the requested one when it
\* has a credential, else the first of OpenRouter, Gemini, OpenAI that has
\* one; the selected provider has a credential.
C27_ProviderResolution ==
    (RefinementRequested /\ requestIndex # NoIndex /\ ~NoCredential) =>
        /\ selectedProvider # "null"
        /\ HasCredential(selectedProvider)
        /\ IF HasCredential(body.llmProvider)
           THEN selectedProvider = body.llmProvider
           ELSE \E i \in 1..Len(ResolutionOrder) :
                    /\ selectedProvider = ResolutionOrder[i]
                    /\ \A j \in 1..(i - 1) : ~HasCredential(ResolutionOrder[j])

\* OpenAI is requested and has no key: OpenRouter comes before Gemini.
C27_Witness ==
    /\ RefinementRequested /\ pc = "done"
    /\ body.llmProvider = "openai" /\ ~config.openaiApiKey
    /\ config.geminiApiKey /\ config.openrouterApiKey
    /\ selectedProvider = "openrouter"
    /\ \E i \in CallsOf("generate") : calls[i].provider = "openrouter"

\* Gemini is requested and has a key, and so has OpenRouter.
C27_WitnessRequested ==
    /\ RefinementRequested /\ pc = "done"
    /\ body.llmProvider = "gemini" /\ config.openrouterApiKey
    /\ selectedProvider = "gemini"

\* C28: a request makes at most one embedding call and at most one generation
\* call, the generation call after the embedding call and the shortlist; a
\* call that failed ends the request with an error response, with no second
\* call and no call of another provider.
C28_NoRetry ==
    /\ Cardinality(CallsOf("embedText")) <= 1
    /\ Cardinality(CallsOf("generate")) <= 1
    /\ \A j \in CallsOf("generate") :
           /\ \E i \in CallsOf("embedText") : i < j
           /\ shortlist # <<>>
           /\ calls[j].provider = selectedProvider
    /\ (providerAnswer # None /\ providerAnswer.kind # "ok") =>
           pc = "done" /\ httpResponse.status >= 400
    /\ (pc = "done" /\ CallsOf("embedText") # {} /\ shortlist = <<>>) =>
           httpResponse.status >= 400 /\ CallsOf("generate") = {}

C28_Witness ==
    /\ pc = "done"
    /\ providerAnswer = [kind |-> "threw"]
    /\ httpResponse.status = 500
    /\ Cardinality(CallsOf("generate")) = 1

\* The embedding call failed: no generation call was made.
C28_WitnessEmbedding ==
    /\ pc = "done" /\ RefinementRequested
    /\ httpResponse = ErrorResponse(500, "Embedding provider error")
    /\ calls = <<[call |-> "embedText"]>>

\* C29: a 429 answer of the selected generation provider, whichever it is,
\* gives a response of status 429 that carries the retry delay and a
\* Retry-After header exactly when the provider supplied a retry hint.
C29_RateLimitSurfaced ==
    (/\ pc = "done" /\ providerAnswer # None
     /\ providerAnswer.kind = "status" /\ providerAnswer.status = 429) =>
        /\ httpResponse.status = 429
        /\ (providerAnswer.retryDelay.kind = "string")
               <=> (httpResponse.body.retryAfterSeconds # Null)
        /\ (providerAnswer.retryDelay.kind = "string") <=> (httpResponse.headers # {})

(***************************************************************************)
(* The lexical ranking of app/api/match on its own                         *)
(***************************************************************************)
MaxLexEntries == 3

LexKeywords ==
    {<<"A", "I">>,
     <<"l", "o", "v", "e">>,
     <<"w", "a", "r", " ", "l", "o", "v", "e", " ", "s", "p", "y">>,
     <<"s", "p", "y", " ", "w", "a", "r", " ", "l", "o", "v", "e", " ", "a", "n", "d">>,
     <<"r", "o", "b", "o", "t">>}

LexDescriptions ==
    {<<"A", "n", " ", "A", "I", " ", "s", "p", "y", ",", " ", "i", "n", " ", "l", "o", "v", "e", " ", "a", "n", "d", " ", "w", "a", "r">>,
     <<"R", "o", "b", "o", "t", " ", "i", "n", " ", "l", "o", "v", "e">>}

\* The keyword lists without repetition, of at most n keywords.
RECURSIVE KeywordLists(_)
KeywordLists(n) ==
    IF n = 0 THEN {<<>>}
    ELSE LET shorter == KeywordLists(n - 1) IN
         shorter \cup {Append(ks, k) : ks \in {x \in shorter : Len(x) = n - 1},
                                       k \in LexKeywords}

LexIndexes ==
    {[keywords |-> [i \in 1..Len(ks) |-> [keyword |-> ks[i], embedding |-> <<>>]]] :
        ks \in {x \in KeywordLists(MaxLexEntries) :
                   /\ x # <<>>
                   /\ \A i, j \in 1..Len(x) : i # j => x[i] # x[j]}}

InitLex ==
    /\ lexDescription \in LexDescriptions
    /\ lexIndex \in LexIndexes
    /\ lexOut = None
    /\ UsageIdle /\ EstimateIdle
    /\ CosIdle /\ TopIdle /\ ValIdle /\ ExtIdle /\ PostIdle

CallKeywordsWithScore ==
    /\ lexOut = None
    /\ lexOut' = [ranking |-> keywordsWithScore(lexDescription, lexIndex),
                  response |-> LexicalMatch(lexDescription, lexIndex, Undefined)]
    /\ UNCHANGED <<lexDescription, lexIndex, usageVars, estimateVars,
                   cosVars, topVars, valVars, extVars, postVars>>

NextLex == CallKeywordsWithScore

SpecLex == InitLex /\ [][NextLex]_vars

\* Whether the keyword occurs in the description, whatever the case.
OccursInDescription(keyword) ==
    includes(toLowerCase(lexDescription), toLowerCase(keyword))

\* C26: in the lexical ranking every keyword that occurs in the description
\* has a strictly higher score, and an earlier place, than every keyword that
\* matches through overlapping tokens only.
C26_SubstringOutranksTokens ==
    lexOut # None =>
        \A i, j \in 1..Len(lexOut.ranking) :
            (/\ OccursInDescription(lexOut.ranking[i].keyword)
             /\ ~OccursInDescription(lexOut.ranking[j].keyword)) =>
                /\ lexOut.ranking[i].score > lexOut.ranking[j].score
                /\ i < j

(***************************************************************************)
(* lib/usageTracker                                                        *)
(*                                                                         *)
(* An optional property is the empty sequence when absent and <<v>> when   *)
(* present.  The timestamps 'since' and 'at' are left out.                 *)
(***************************************************************************)
Providers == {"openai", "gemini", "openrouter"}

createEmptyTokens == [promptTokens |-> 0, outputTokens |-> 0, totalTokens |-> 0]

\* The module's usageState when it is loaded.
InitialUsage ==
    [requests |-> 0,
     tokens |-> createEmptyTokens,
     providers |-> [p \in Providers |->
                       [requests |-> 0, models |-> <<>>, tokens |-> createEmptyTokens]],
     users |-> <<>>]

\* optional ?? fallback
OrElse(optional, fallback) == IF optional = <<>> THEN fallback ELSE optional[1]

applyTokens(target, delta) ==
    [promptTokens |-> target.promptTokens + OrElse(delta.promptTokens, 0),
     outputTokens |-> target.outputTokens + OrElse(delta.outputTokens, 0),
     totalTokens |-> target.totalTokens
                     + OrElse(delta.totalTokens,
                              OrElse(delta.promptTokens, 0) + OrElse(delta.outputTokens, 0))]

\* A lookup that replaces the model's record by an empty one every time.
getOrCreateModelUsageAlwaysCreating(models, model) ==
    (model :> [requests |-> 0, tokens |-> createEmptyTokens]) @@ models

\* The models with an entry for the model, a new one when it had none.
getOrCreateModelUsage(models, model) ==
    IF model \in DOMAIN models THEN models
    ELSE (model :> [requests |-> 0, tokens |-> createEmptyTokens]) @@ models

\* The users with an entry for the user, a new one when there was none.
getOrCreateUserUsage(users, userId) ==
    IF userId \in DOMAIN users THEN users
    ELSE (userId :> [requests |-> 0, tokens |-> createEmptyTokens, models |-> <<>>]) @@ users

\* recordUsage({ provider, model, userId, tokens }): the usageState after it.
recordUsage(state, input) ==
    LET p == input.provider
        mdl == input.model
        u == input.userId
        counted ==
            [state EXCEPT
                !.requests = @ + 1,
                !.providers[p].requests = @ + 1,
                !.providers[p].models =
                    LET models == getOrCreateModelUsage(@, mdl) IN
                    [models EXCEPT ![mdl].requests = @ + 1],
                !.users =
                    LET users == getOrCreateUserUsage(@, u)
                        models == getOrCreateModelUsage(users[u].models, mdl)
                    IN  [users EXCEPT ![u].requests = @ + 1,
                                      ![u].models = [models EXCEPT ![mdl].requests = @ + 1]]]
        withTokens ==
            IF input.tokens = <<>> THEN counted
            ELSE LET delta == input.tokens[1] IN
                 [counted EXCEPT
                     !.tokens = applyTokens(@, delta),
                     !.providers[p].tokens = applyTokens(@, delta),
                     !.providers[p].models[mdl].tokens = applyTokens(@, delta),
                     !.users[u].tokens = applyTokens(@, delta),
                     !.users[u].models[mdl].tokens = applyTokens(@, delta)]
        given == IF input.tokens = <<>>
                 THEN [promptTokens |-> <<>>, outputTokens |-> <<>>, totalTokens |-> <<>>]
                 ELSE input.tokens[1]
    IN  ("lastRequest" :>
            [provider |-> p, model |-> mdl, user |-> u,
             tokens |-> applyTokens(createEmptyTokens, given)])
        @@ withTokens

\* JSON.parse(JSON.stringify(usageState)): the state holds numbers, strings
\* and objects without undefined properties, which the round trip copies.
getUsageSnapshot(state) == [k \in DOMAIN state |-> state[k]]

MaxRecords == 2

UsageModels == {"gpt-4o-mini", "gemini-2.0-flash"}
UsageUsers == {"10.0.0.1", "10.0.0.2"}

\* The token data of a call: none, partial, complete.
TokenData ==
    {<<>>,
     <<[promptTokens |-> <<2>>, outputTokens |-> <<>>, totalTokens |-> <<>>]>>,
     <<[promptTokens |-> <<>>, outputTokens |-> <<1>>, totalTokens |-> <<5>>]>>,
     <<[promptTokens |-> <<3>>, outputTokens |-> <<1>>, totalTokens |-> <<0>>]>>}

UsageInputs ==
    [provider : {"gemini", "openrouter"}, model : UsageModels, userId : UsageUsers,
     tokens : TokenData]

InitUsage ==
    /\ usageState = InitialUsage
    /\ usageSnapshot = None
    /\ usageInput = None
    /\ LexIdle /\ EstimateIdle
    /\ CosIdle /\ TopIdle /\ ValIdle /\ ExtIdle /\ PostIdle

CallRecordUsage ==
    /\ usageState.requests < MaxRecords
    /\ \E input \in UsageInputs :
        /\ usageState' = recordUsage(usageState, input)
        /\ usageInput' = input
    /\ UNCHANGED <<usageSnapshot, lexVars, estimateVars,
                   cosVars, topVars, valVars, extVars, postVars>>

CallGetUsageSnapshot ==
    /\ usageSnapshot' = getUsageSnapshot(usageState)
    /\ UNCHANGED <<usageState, usageInput, lexVars, estimateVars,
                   cosVars, topVars, valVars, extVars, postVars>>

NextUsage == CallRecordUsage \/ CallGetUsageSnapshot

SpecUsage == InitUsage /\ [][NextUsage]_vars

RECURSIVE SumOver(_, _)
\* The sum of field(entries[k]) over the keys k.
SumOver(values, keys) ==
    IF keys = {} THEN 0
    ELSE LET k == CHOOSE x \in keys : TRUE IN values[k] + SumOver(values, keys \ {k})

\* requests, promptTokens, outputTokens, totalTokens of a usage record
Counters(usage) ==
    <<usage.requests, usage.tokens.promptTokens, usage.tokens.outputTokens,
      usage.tokens.totalTokens>>

\* Whether a record's counters are the sums of the counters of its parts.
SumsUp(usage, parts) ==
    \A c \in 1..4 :
        Counters(usage)[c] =
            SumOver([k \in DOMAIN parts |-> Counters(parts[k])[c]], DOMAIN parts)

ConsistentUsage(state) ==
    /\ SumsUp(state, state.providers)
    /\ SumsUp(state, state.users)
    /\ \A p \in DOMAIN state.providers : SumsUp(state.providers[p], state.providers[p].models)
    /\ \A u \in DOMAIN state.users : SumsUp(state.users[u], state.users[u].models)

\* The token totals of a set of usage records, a record not there counting
\* as empty.
TokensOf(usages, key) ==
    IF key \in DOMAIN usages THEN usages[key].tokens ELSE createEmptyTokens

SameTokenTotals(old, new) ==
    /\ new.tokens = old.tokens
    /\ \A p \in DOMAIN new.providers :
        /\ new.providers[p].tokens = old.providers[p].tokens
        /\ \A k \in DOMAIN new.providers[p].models :
               new.providers[p].models[k].tokens = TokensOf(old.providers[p].models, k)
    /\ \A u \in DOMAIN new.users :
        /\ new.users[u].tokens = TokensOf(old.users, u)
        /\ \A k \in DOMAIN new.users[u].models :
               new.users[u].models[k].tokens
                   = IF u \in DOMAIN old.users THEN TokensOf(old.users[u].models, k)
                     ELSE createEmptyTokens

\* C30: the counters of usageState are consistent at every level, for the
\* requests and for each token field; a recordUsage call adds one request,
\* and without token data changes no token total; getUsageSnapshot leaves
\* usageState as it is.
C30_UsageConsistency ==
    /\ ConsistentUsage(usageState)
    /\ [][/\ ConsistentUsage(usageState')
          /\ (usageState' # usageState) =>
                /\ usageState'.requests = usageState.requests + 1
                /\ (usageInput'.tokens = <<>>) => SameTokenTotals(usageState, usageState')
          /\ (usageSnapshot' # usageSnapshot) =>
                usageState' = usageState /\ usageSnapshot' = usageState]_vars

\* Two calls of one user with two models, the second without token data, and
\* a snapshot taken between them.
C30_Witness ==
    /\ usageState.requests = 2
    /\ usageInput.tokens = <<>>
    /\ usageState.tokens.totalTokens = 5
    /\ \E u \in DOMAIN usageState.users : Cardinality(DOMAIN usageState.users[u].models) = 2
    /\ usageSnapshot # None /\ usageSnapshot.requests = 1

(***************************************************************************)
(* The token-estimate route: POST                                          *)
(***************************************************************************)
EstimatedOutputTokens == 30
SystemPromptLength == 136
PromptFrameLength == 569

\* estimateTokens(text), from the length of the text
estimateTokens(textLength) == (textLength + 3) \div 4

\* Array(n).fill('keyword')
PlaceholderShortlist(n) == [i \in 1..n |-> <<"k", "e", "y", "w", "o", "r", "d">>]

\* The provider the estimate is made for, "null" when there is none.
EstimateProvider(requested, cfg) ==
    IF requested = "openrouter" /\ cfg.openrouterApiKey THEN "openrouter"
    ELSE IF requested = "gemini" /\ cfg.geminiApiKey THEN "gemini"
    ELSE IF cfg.openrouterApiKey THEN "openrouter"
    ELSE IF cfg.geminiApiKey THEN "gemini"
    ELSE "null"

EstimateModel(provider) ==
    IF provider = "openrouter" THEN "config.openrouterModel" ELSE "config.geminiLlmModel"

\* The route's loadKeywordIndex: the index, None for null, and the cache.
estimateLoadKeywordIndex(cache, disk) ==
    IF cache # None THEN [value |-> cache, cache |-> cache]
    ELSE IF ~disk.indexFile.exists THEN [value |-> None, cache |-> cache]
    ELSE [value |-> disk.indexFile.content, cache |-> disk.indexFile.content]

\* The success response, from the shortlist keywords the prompt is built of.
EstimateOf(provider, description, shortlistKeywords, usage) ==
    LET shortlistText == JoinWith(shortlistKeywords, <<",", " ">>)
        promptLength == PromptFrameLength + Len(description) + Len(shortlistText)
        promptTokens == estimateTokens(SystemPromptLength + 2 + promptLength)
        models == getUsageSnapshot(usage).providers[provider].models
        modelUsage == IF EstimateModel(provider) \in DOMAIN models
                      THEN models[EstimateModel(provider)]
                      ELSE [requests |-> 0, tokens |-> createEmptyTokens]
    IN  Json(200, [provider |-> provider,
                   model |-> EstimateModel(provider),
                   estimates |-> [promptTokens |-> promptTokens,
                                  outputTokens |-> EstimatedOutputTokens,
                                  totalTokens |-> promptTokens + EstimatedOutputTokens],
                   currentUsage |-> [requests |-> modelUsage.requests,
                                     tokens |-> modelUsage.tokens],
                   overUsage |-> Null])

EstimateBodies ==
    [description : {Str(d) : d \in Descriptions} \cup {Undefined, Str(<<>>)},
     llmProvider : {"openrouter", "gemini", "openai", "undefined"}]
    \cup {[malformed |-> TRUE]}

\* The match route is not called.
MatchRouteIdle ==
    /\ keywordIndexCache = None
    /\ pc = "idle" /\ body = None /\ requestIndex = NoIndex
    /\ selectedProvider = "null" /\ shortlist = <<>> /\ calls = <<>>
    /\ llmContent = NoContent /\ providerAnswer = None
    /\ httpResponse = None /\ served = 0

InitEstimate ==
    /\ config \in Configs
    /\ storage \in Storages
    /\ MatchRouteIdle
    /\ EstimateIdle
    /\ usageState = InitialUsage /\ usageSnapshot = None /\ usageInput = None
    /\ LexIdle /\ CosIdle /\ TopIdle /\ ValIdle /\ ExtIdle

EstimateRespond(r) == estimatePc' = "done" /\ estimateResponse' = r

\* From the request to the response or to the await of embedText.
EstimatePostStart ==
    /\ estimatePc \in {"idle", "done"}
    /\ \E b \in EstimateBodies :
        /\ estimateBody' = b
        /\ estimateEmbedding' = None
        /\ IF "malformed" \in DOMAIN b
           THEN /\ EstimateRespond(ErrorResponse(500, "Unexpected token in JSON"))
                /\ UNCHANGED estimateCache
           ELSE IF b.description.kind # "string" \/ b.description.text = <<>>
           THEN /\ EstimateRespond(ErrorResponse(400, "Description is required"))
                /\ UNCHANGED estimateCache
           ELSE IF EstimateProvider(b.llmProvider, config) = "null"
           THEN /\ EstimateRespond(ErrorResponse(400, "No LLM provider available for estimation"))
                /\ UNCHANGED estimateCache
           ELSE LET loaded == estimateLoadKeywordIndex(estimateCache, storage) IN
                /\ estimateCache' = loaded.cache
                /\ IF loaded.value = None
                   THEN EstimateRespond(ErrorResponse(500, "Keyword index not available"))
                   ELSE IF ~config.openaiApiKey /\ ~config.geminiApiKey
                   THEN EstimateRespond(
                            EstimateOf(EstimateProvider(b.llmProvider, config),
                                       b.description.text,
                                       PlaceholderShortlist(config.shortlistSize),
                                       usageState))
                   ELSE estimatePc' = "embedding" /\ estimateResponse' = None
    /\ UNCHANGED <<config, storage, keywordIndexCache, pc, body, requestIndex,
                   selectedProvider, shortlist, llmContent, providerAnswer, calls,
                   httpResponse, served, lexVars, usageVars,
                   cosVars, topVars, valVars, extVars>>

\* From the answer of the embedding provider to the response.
EstimatePostEmbedded ==
    /\ estimatePc = "embedding"
    /\ \E e \in EmbeddingOutcomes :
        LET found == IF e.threw THEN e
                     ELSE findTopSimilar(e.value, estimateCache, config.shortlistSize)
            shortlistKeywords ==
                IF found.threw THEN PlaceholderShortlist(config.shortlistSize)
                ELSE [i \in 1..Len(found.value) |-> found.value[i].keyword]
        IN  /\ estimateEmbedding' = e
            /\ EstimateRespond(
                   EstimateOf(EstimateProvider(estimateBody.llmProvider, config),
                              estimateBody.description.text, shortlistKeywords, usageState))
    /\ UNCHANGED <<config, storage, keywordIndexCache, pc, body, requestIndex,
                   selectedProvider, shortlist, llmContent, providerAnswer, calls,
                   httpResponse, served, estimateCache, estimateBody, lexVars, usageVars,
                   cosVars, topVars, valVars, extVars>>

NextEstimate == EstimatePostStart \/ EstimatePostEmbedded

SpecEstimate == InitEstimate /\ [][NextEstimate]_vars

\* What findTopSimilar gave for the request's embedding.
EstimateFound == findTopSimilar(estimateEmbedding.value, estimateCache, config.shortlistSize)

\* C22: when findTopSimilar fails on the index while a request is handled,
\* the response is an error that carries the failure; no keyword list,
\* placeholder shortlist or estimate stands in for it.
C22_IntegrityFailureSurfaced ==
    (/\ estimatePc = "done"
     /\ estimateEmbedding # None /\ ~estimateEmbedding.threw
     /\ EstimateFound.threw) =>
        estimateResponse = ErrorResponse(500, EstimateFound.message)
====
